---- MODULE Spec2Model ----
(***************************************************************************)
(* Verification model of lark-wiki-mcp-agents.                             *)
(*                                                                         *)
(*  - LarkWikiMCPAgent (src/unnamed/part_001): the JSON-RPC request /      *)
(*    response correlator over the stdio pipe of the MCP server process.   *)
(*    Specification: SpecCorr.                                             *)
(*  - WikiIndexManager (src/src/cli.ts, lines 256-608): the index page     *)
(*    reconciler.  Specification: SpecMgr.                                 *)
(***************************************************************************)
EXTENDS Integers, Sequences, FiniteSets, TLC

\* ------------------------------------------------------------------ bounds
\* Largest request id the model lets sendMCPRequest allocate.
MaxRequests == 2
\* Largest number of lines the pipe holds before one stdout 'data' event.
MaxLines == 2
\* Largest number of manager operations that call the remote service.
MaxRuns == 2
\* Largest number of patterns in a topic's include or exclude list.
MaxPatterns == 2
\* Largest number of search hits handed to filterResults / removeDuplicates.
MaxHits == 2
\* Largest number of index pages registered with one manager.
MaxPages == 2
\* Largest number of updateIndexPage calls in progress at once.
MaxFlows == 2

\* ------------------------------------------------------- values of the model
\* JavaScript's undefined / a field that is absent.
Undefined == "undefined"
\* this.mcpProcess: null, or the ChildProcess object of the latest spawn
NoProc == "null"
TheProc == "ChildProcess"
\* The result payload of the server's answer to request id: one payload per
\* request, so that a result delivered to the wrong request shows.
ResultFor(id) == [answerTo |-> id]
\* The value of a promise that carries no result.
NoResult == [answerTo |-> 0]
\* Error envelopes {code, message} a server may put in a response.
ErrorCodes == {"E1"}
ErrorMessages == {"boom"}
\* The message of the Error sendMCPRequest rejects with when no stdin exists.
NotInitializedMessage == "MCP process not initialized"

RequestIds == 1..MaxRequests

\* --------------------------------------------------------------- the state
VARIABLES
    mcpProcess,        \* LarkWikiMCPAgent.mcpProcess: NoProc or TheProc
    procRunning,       \* whether the process mcpProcess refers to is running
    requestId,         \* LarkWikiMCPAgent.requestId: the next id to allocate
    pendingRequests,   \* keys of LarkWikiMCPAgent.pendingRequests
    initialized,       \* LarkWikiMCPAgent.initialized
    outcome,           \* id -> state of the promise sendMCPRequest returned
    issued,            \* ids in the order sendMCPRequest allocated them
    written,           \* requests written to the server's stdin
    initCalls,         \* initialize() invocations suspended at an await
    listening,         \* whether a stdout 'data' listener has been attached
    spawnedSinceClose, \* server processes spawned since the last close()
    lastEvent,         \* what the most recent 'data' event settled and discarded
    uncaught,          \* whether an exception has escaped the 'data' listener
    stdoutPipe         \* the server's stdout: the line cut by the latest event,
                       \* and the requests whose response line has arrived whole

corrVars == <<mcpProcess, procRunning, requestId, pendingRequests, initialized,
              outcome, issued, written, initCalls, listening,
              spawnedSinceClose, lastEvent, uncaught, stdoutPipe>>

VARIABLES
    wikis,             \* WikiIndexManager.wikis: sequence of WikiInfo
    indexPages,        \* keys of WikiIndexManager.indexPages, in insertion order
    shortcuts,         \* WikiIndexManager.shortcuts: target -> ShortcutInfo list
    searchCache,       \* WikiIndexManager.searchCache: cache key -> items
    remoteChildren,    \* remote service: index node -> its child nodes
    pass,              \* the updateIndexPage call in progress or last finished
    prev,              \* per index page, what its last completed update did
    runs,              \* remote-calling manager operations started so far
    stats,             \* what getStatistics returned, until the next operation
    successes,         \* createShortcut calls of updateIndexPage that resolved
    bulk,              \* the updateAllIndexPages call in progress, if any
    calls,             \* the remote requests the latest manager step issued
    searched,          \* what searchWiki has returned since the last clearCache
    edition,           \* which content the remote search index holds
    delays             \* per createShortcut call of the latest operation: delay() followed

mgrVars == <<wikis, indexPages, shortcuts, searchCache, remoteChildren, pass,
             prev, runs, stats, successes, bulk, calls, searched, edition,
             delays>>

VARIABLES
    matcher            \* the latest filterResults / removeDuplicates call

matcherVars == <<matcher>>

VARIABLES
    variant,           \* which agent class the agent is an instance of
    cmdCall,           \* the execute call of the agent's user, and its chain
    invoked,           \* the group handler calls that execute call has made
    rollbacks          \* the arguments of the rollback calls it has made

execVars == <<variant, cmdCall, invoked, rollbacks>>

VARIABLES
    flows              \* the updateIndexPage calls that overlap on one manager

flowVars == <<flows>>

vars == <<corrVars, mgrVars, matcherVars, execVars, flowVars>>

\* ------------------------------------------------ command dispatch: values
\* A JavaScript string is the sequence of its characters; an absent property
\* (undefined) is the empty sequence.
Digits == {"0", "1", "2", "3", "4", "5", "6", "7", "8", "9"}
\* The characters \w matches.
WordChars ==
    {"A", "B", "C", "D", "E", "F", "G", "H", "I", "J", "K", "L", "M",
     "N", "O", "P", "Q", "R", "S", "T", "U", "V", "W", "X", "Y", "Z",
     "a", "b", "c", "d", "e", "f", "g", "h", "i", "j", "k", "l", "m",
     "n", "o", "p", "q", "r", "s", "t", "u", "v", "w", "x", "y", "z",
     "_"} \cup Digits

\* The two agent classes.
Variants == {"LarkWikiAgent", "LarkWikiMCPAgent"}

\* enum CommandType; LarkWikiMCPAgent uses the same strings as literals.
CommandType ==
    [C1_WIKI_SPACE |-> <<"C", "1">>,
     C2_NODE_MANAGEMENT |-> <<"C", "2">>,
     C3_PERMISSION |-> <<"C", "3">>,
     C4_CONTENT |-> <<"C", "4">>,
     C5_AUTOMATION |-> <<"C", "5">>,
     RUN_ALL |-> <<"R", "U", "N", "_", "A", "L", "L">>,
     RUN_CHAIN |-> <<"R", "U", "N", "_", "C", "H", "A", "I", "N">>]

\* The literals parseCommand compares a command with, and String(undefined).
Text ==
    [RunAll |-> <<"R", "U", "N", " ", "A", "L", "L">>,
     RunPrefix |-> <<"R", "u", "n", " ", "C">>,
     Undefined |-> <<"u", "n", "d", "e", "f", "i", "n", "e", "d">>]

\* The operation names: the case labels of the group handlers and the
\* members of SafeguardSystem.criticalOperations.
Op ==
    [INITIALIZE |-> <<"I", "N", "I", "T", "I", "A", "L", "I", "Z", "E">>,
     SECURITY_CONTROL |->
         <<"S", "E", "C", "U", "R", "I", "T", "Y", "_", "C", "O", "N", "T",
           "R", "O", "L">>,
     PUBLIC_EXPOSURE |->
         <<"P", "U", "B", "L", "I", "C", "_", "E", "X", "P", "O", "S", "U",
           "R", "E">>,
     HIERARCHICAL_PERMISSIONS |->
         <<"H", "I", "E", "R", "A", "R", "C", "H", "I", "C", "A", "L", "_",
           "P", "E", "R", "M", "I", "S", "S", "I", "O", "N", "S">>,
     CREATE_NODE |-> <<"C", "R", "E", "A", "T", "E", "_", "N", "O", "D", "E">>,
     MOVE_NODE |-> <<"M", "O", "V", "E", "_", "N", "O", "D", "E">>,
     DELETE_NODE |-> <<"D", "E", "L", "E", "T", "E", "_", "N", "O", "D", "E">>,
     ANALYZE_PERMISSIONS |->
         <<"A", "N", "A", "L", "Y", "Z", "E", "_", "P", "E", "R", "M", "I",
           "S", "S", "I", "O", "N", "S">>,
     MODIFY_PERMISSIONS |->
         <<"M", "O", "D", "I", "F", "Y", "_", "P", "E", "R", "M", "I", "S",
           "S", "I", "O", "N", "S">>,
     SHARING_CONTROL |->
         <<"S", "H", "A", "R", "I", "N", "G", "_", "C", "O", "N", "T", "R",
           "O", "L">>,
     SEARCH_RETRIEVE |->
         <<"S", "E", "A", "R", "C", "H", "_", "R", "E", "T", "R", "I", "E",
           "V", "E">>,
     BITABLE_INTEGRATION |->
         <<"B", "I", "T", "A", "B", "L", "E", "_", "I", "N", "T", "E", "G",
           "R", "A", "T", "I", "O", "N">>,
     DOCUMENT_OPERATIONS |->
         <<"D", "O", "C", "U", "M", "E", "N", "T", "_", "O", "P", "E", "R",
           "A", "T", "I", "O", "N", "S">>,
     SCHEDULE_TASK |->
         <<"S", "C", "H", "E", "D", "U", "L", "E", "_", "T", "A", "S", "K">>,
     TRIGGER_EVENT |->
         <<"T", "R", "I", "G", "G", "E", "R", "_", "E", "V", "E", "N", "T">>,
     RUN_WORKFLOW |->
         <<"R", "U", "N", "_", "W", "O", "R", "K", "F", "L", "O", "W">>,
     CREATE_SPACE |->
         <<"C", "R", "E", "A", "T", "E", "_", "S", "P", "A", "C", "E">>,
     GET_SPACE_INFO |->
         <<"G", "E", "T", "_", "S", "P", "A", "C", "E", "_", "I", "N", "F", "O">>,
     LIST_SPACES |-> <<"L", "I", "S", "T", "_", "S", "P", "A", "C", "E", "S">>,
     UPDATE_SETTINGS |->
         <<"U", "P", "D", "A", "T", "E", "_", "S", "E", "T", "T", "I", "N",
           "G", "S">>,
     LIST_NODES |-> <<"L", "I", "S", "T", "_", "N", "O", "D", "E", "S">>,
     COPY_NODE |-> <<"C", "O", "P", "Y", "_", "N", "O", "D", "E">>,
     UPDATE_TITLE |->
         <<"U", "P", "D", "A", "T", "E", "_", "T", "I", "T", "L", "E">>,
     GET_NODE_INFO |->
         <<"G", "E", "T", "_", "N", "O", "D", "E", "_", "I", "N", "F", "O">>,
     LIST_MEMBERS |->
         <<"L", "I", "S", "T", "_", "M", "E", "M", "B", "E", "R", "S">>,
     ADD_MEMBER |-> <<"A", "D", "D", "_", "M", "E", "M", "B", "E", "R">>,
     REMOVE_MEMBER |->
         <<"R", "E", "M", "O", "V", "E", "_", "M", "E", "M", "B", "E", "R">>,
     UPDATE_PERMISSIONS |->
         <<"U", "P", "D", "A", "T", "E", "_", "P", "E", "R", "M", "I", "S",
           "S", "I", "O", "N", "S">>,
     SEARCH_WIKI |-> <<"S", "E", "A", "R", "C", "H", "_", "W", "I", "K", "I">>,
     GET_DOCUMENT_CONTENT |->
         <<"G", "E", "T", "_", "D", "O", "C", "U", "M", "E", "N", "T", "_",
           "C", "O", "N", "T", "E", "N", "T">>,
     CREATE_DOCUMENT |->
         <<"C", "R", "E", "A", "T", "E", "_", "D", "O", "C", "U", "M", "E",
           "N", "T">>,
     UPDATE_DOCUMENT |->
         <<"U", "P", "D", "A", "T", "E", "_", "D", "O", "C", "U", "M", "E",
           "N", "T">>,
     WIKI_TO_BITABLE |->
         <<"W", "I", "K", "I", "_", "T", "O", "_", "B", "I", "T", "A", "B",
           "L", "E">>,
     CREATE_TASK |-> <<"C", "R", "E", "A", "T", "E", "_", "T", "A", "S", "K">>,
     GET_TASK |-> <<"G", "E", "T", "_", "T", "A", "S", "K">>,
     BATCH_OPERATIONS |->
         <<"B", "A", "T", "C", "H", "_", "O", "P", "E", "R", "A", "T", "I",
           "O", "N", "S">>,
     GENESIS_CREATE |->
         <<"G", "E", "N", "E", "S", "I", "S", "_", "C", "R", "E", "A", "T", "E">>,
     PERMISSION_CHANGE |->
         <<"P", "E", "R", "M", "I", "S", "S", "I", "O", "N", "_", "C", "H",
           "A", "N", "G", "E">>]

\* The operations the handler of a group has a case for.
KnownOperations(v, group) ==
    IF v = "LarkWikiAgent"
    THEN
        IF group = CommandType.C1_WIKI_SPACE
        THEN {Op.INITIALIZE, Op.SECURITY_CONTROL, Op.PUBLIC_EXPOSURE,
              Op.HIERARCHICAL_PERMISSIONS}
        ELSE IF group = CommandType.C2_NODE_MANAGEMENT
        THEN {Op.CREATE_NODE, Op.MOVE_NODE, Op.DELETE_NODE}
        ELSE IF group = CommandType.C3_PERMISSION
        THEN {Op.ANALYZE_PERMISSIONS, Op.MODIFY_PERMISSIONS, Op.SHARING_CONTROL}
        ELSE IF group = CommandType.C4_CONTENT
        THEN {Op.SEARCH_RETRIEVE, Op.BITABLE_INTEGRATION,
              Op.DOCUMENT_OPERATIONS}
        ELSE {Op.SCHEDULE_TASK, Op.TRIGGER_EVENT, Op.RUN_WORKFLOW}
    ELSE
        IF group = CommandType.C1_WIKI_SPACE
        THEN {Op.INITIALIZE, Op.CREATE_SPACE, Op.GET_SPACE_INFO,
              Op.LIST_SPACES, Op.UPDATE_SETTINGS}
        ELSE IF group = CommandType.C2_NODE_MANAGEMENT
        THEN {Op.CREATE_NODE, Op.LIST_NODES, Op.MOVE_NODE, Op.COPY_NODE,
              Op.UPDATE_TITLE, Op.GET_NODE_INFO}
        ELSE IF group = CommandType.C3_PERMISSION
        THEN {Op.LIST_MEMBERS, Op.ADD_MEMBER, Op.REMOVE_MEMBER,
              Op.UPDATE_PERMISSIONS}
        ELSE IF group = CommandType.C4_CONTENT
        THEN {Op.SEARCH_WIKI, Op.GET_DOCUMENT_CONTENT, Op.CREATE_DOCUMENT,
              Op.UPDATE_DOCUMENT, Op.WIKI_TO_BITABLE}
        ELSE {Op.CREATE_TASK, Op.GET_TASK, Op.BATCH_OPERATIONS,
              Op.GENESIS_CREATE}

\* The params argument of execute: omitted (undefined), or an object with
\* the properties the safeguards read.
NoParams ==
    [given |-> FALSE, confirmed |-> FALSE, backup_complete |-> FALSE,
     impact_analysis_complete |-> FALSE]
ParamValues ==
    {NoParams} \cup
    {[given |-> TRUE, confirmed |-> c, backup_complete |-> b,
      impact_analysis_complete |-> FALSE] : c \in BOOLEAN, b \in BOOLEAN}

\* Errors.  The message is a template literal: its text and the strings
\* interpolated into it.
NoFailure == [name |-> "none", text |-> "", args |-> <<>>]
\* A property of undefined is read, or undefined is iterated.
TypeError == [name |-> "TypeError", text |-> "undefined", args |-> <<>>]
\* new Error(`Unknown command: ${command}`)
UnknownCommandError(command) ==
    [name |-> "Error", text |-> "Unknown command: ${command}",
     args |-> <<command>>]
\* new Error(`Unknown C1 operation: ${operation}`) and its siblings
UnknownOperationError(group, operation) ==
    [name |-> "Error", text |-> "Unknown ${group} operation: ${operation}",
     args |-> <<group, IF operation = <<>> THEN Text.Undefined ELSE operation>>]
\* The rejection of a handler whose remote call or own logic failed.
HandlerError == [name |-> "Error", text |-> "operation failed", args |-> <<>>]

\* The execute call of the agent's user: not made yet.
IdleCall ==
    [st |-> "idle", command |-> <<>>, params |-> NoParams, commands |-> <<>>,
     idx |-> 0, results |-> <<>>, error |-> NoFailure]

\* ------------------------------------------------ command dispatch: helpers
\* command.match(/C\d/g): the matches from position i on, left to right;
\* the empty sequence stands for null.
RECURSIVE MatchGroupsFrom(_, _)
MatchGroupsFrom(s, i) ==
    IF i + 1 > Len(s) THEN <<>>
    ELSE IF s[i] = "C" /\ s[i + 1] \in Digits
         THEN <<SubSeq(s, i, i + 1)>> \o MatchGroupsFrom(s, i + 2)
         ELSE MatchGroupsFrom(s, i + 1)

\* The longest run of \w characters of s that starts at position i.
RECURSIVE WordFrom(_, _)
WordFrom(s, i) ==
    IF i <= Len(s) /\ s[i] \in WordChars
    THEN <<s[i]>> \o WordFrom(s, i + 1)
    ELSE <<>>

\* command.match(/^(C\d)\.(\w+)/)
DottedMatch(s) ==
    IF /\ Len(s) >= 4
       /\ s[1] = "C"
       /\ s[2] \in Digits
       /\ s[3] = "."
       /\ s[4] \in WordChars
    THEN [matched |-> TRUE, group |-> SubSeq(s, 1, 2), operation |-> WordFrom(s, 4)]
    ELSE [matched |-> FALSE, group |-> <<>>, operation |-> <<>>]

\* LarkWikiAgent.parseCommand: the object {type, operation, commands} it
\* returns.  The type of a dotted command is looked up in CommandType by
\* the key `${group}_${category}`, which exists for C1..C5 only.
ParseCommandStandalone(command) ==
    LET commands == MatchGroupsFrom(command, 1)
        match == DottedMatch(command)
        runC == /\ Len(command) >= Len(Text.RunPrefix)
                /\ SubSeq(command, 1, Len(Text.RunPrefix)) = Text.RunPrefix
        groups == {CommandType.C1_WIKI_SPACE, CommandType.C2_NODE_MANAGEMENT,
                   CommandType.C3_PERMISSION, CommandType.C4_CONTENT,
                   CommandType.C5_AUTOMATION}
    IN
    IF command = Text.RunAll
    THEN [type |-> CommandType.RUN_ALL, operation |-> <<>>, commands |-> <<>>]
    ELSE IF runC /\ Len(commands) > 1
    THEN [type |-> CommandType.RUN_CHAIN, operation |-> <<>>,
          commands |-> commands]
    ELSE IF match.matched
    THEN [type |-> IF match.group \in groups THEN match.group ELSE <<>>,
          operation |-> match.operation, commands |-> <<>>]
    ELSE [type |-> command, operation |-> <<>>, commands |-> <<>>]

\* LarkWikiMCPAgent.parseCommand
ParseCommandMCP(command) ==
    LET commands == MatchGroupsFrom(command, 1)
        match == DottedMatch(command)
        runC == /\ Len(command) >= Len(Text.RunPrefix)
                /\ SubSeq(command, 1, Len(Text.RunPrefix)) = Text.RunPrefix
    IN
    IF command = Text.RunAll
    THEN [type |-> CommandType.RUN_ALL, operation |-> <<>>, commands |-> <<>>]
    ELSE IF runC /\ Len(commands) > 1
    THEN [type |-> CommandType.RUN_CHAIN, operation |-> <<>>,
          commands |-> commands]
    ELSE IF runC /\ Len(commands) = 1
    THEN [type |-> commands[1], operation |-> <<>>, commands |-> <<>>]
    ELSE IF match.matched
    THEN [type |-> match.group, operation |-> match.operation,
          commands |-> <<>>]
    ELSE [type |-> command, operation |-> <<>>, commands |-> <<>>]

\* SafeguardSystem.validate(command, params): the error it throws, or
\* NoFailure.  requireConfirmation, checkNeverDoList and ensureAlwaysDoList
\* read properties of params.
Validate(parsed, params) ==
    LET critical == parsed.operation \in
                        {Op.DELETE_NODE, Op.PUBLIC_EXPOSURE, Op.PERMISSION_CHANGE}
    IN
    IF critical /\ ~params.given
    THEN TypeError
    ELSE IF critical /\ ~params.confirmed
    THEN [name |-> "Error",
          text |-> "Critical operation ${command.operation} requires confirmation",
          args |-> <<parsed.operation>>]
    ELSE IF \/ parsed.operation = Op.PUBLIC_EXPOSURE /\ ~params.impact_analysis_complete
            \/ parsed.operation = Op.DELETE_NODE /\ ~params.backup_complete
    THEN [name |-> "Error", text |-> "Safeguard violation: ${violations}",
          args |-> <<parsed.operation>>]
    ELSE IF ~params.given
    THEN TypeError
    ELSE NoFailure

\* What execute(command, params) does before its first await on a handler
\* or a chain step: it rejects, it starts a chain (runAll's chain is
\* ['C1', 'C2', 'C3', 'C4', 'C5']), or it calls a group handler, for
\* LarkWikiMCPAgent with the group's default operation when the command
\* names none.  LarkWikiMCPAgent is taken to be initialized.
Dispatch(v, command, params) ==
    LET parsed == IF v = "LarkWikiAgent" THEN ParseCommandStandalone(command)
                  ELSE ParseCommandMCP(command)
        verdict == IF v = "LarkWikiAgent" THEN Validate(parsed, params)
                   ELSE NoFailure
        default == IF parsed.type = CommandType.C1_WIKI_SPACE THEN Op.INITIALIZE
                   ELSE IF parsed.type = CommandType.C2_NODE_MANAGEMENT
                   THEN Op.LIST_NODES
                   ELSE IF parsed.type = CommandType.C3_PERMISSION
                   THEN Op.LIST_MEMBERS
                   ELSE IF parsed.type = CommandType.C4_CONTENT
                   THEN Op.SEARCH_WIKI
                   ELSE Op.BATCH_OPERATIONS
    IN
    IF verdict # NoFailure
    THEN [kind |-> "reject", error |-> verdict]
    ELSE IF parsed.type = CommandType.RUN_ALL
    THEN [kind |-> "chain",
          commands |-> <<CommandType.C1_WIKI_SPACE,
                         CommandType.C2_NODE_MANAGEMENT,
                         CommandType.C3_PERMISSION, CommandType.C4_CONTENT,
                         CommandType.C5_AUTOMATION>>]
    ELSE IF parsed.type = CommandType.RUN_CHAIN
    THEN IF parsed.commands # <<>>
         THEN [kind |-> "chain", commands |-> parsed.commands]
         ELSE [kind |-> "reject", error |-> TypeError]
    ELSE IF parsed.type \in
                {CommandType.C1_WIKI_SPACE, CommandType.C2_NODE_MANAGEMENT,
                 CommandType.C3_PERMISSION, CommandType.C4_CONTENT,
                 CommandType.C5_AUTOMATION}
    THEN [kind |-> "invoke", group |-> parsed.type,
          operation |-> IF v = "LarkWikiMCPAgent" /\ parsed.operation = <<>>
                        THEN default ELSE parsed.operation]
    ELSE [kind |-> "reject", error |-> UnknownCommandError(command)]

\* ------------------------------------------------ LarkWikiMCPAgent: values
\* The promise returned by sendMCPRequest, as its caller observes it.
NoPromise == [st |-> "none", value |-> NoResult, message |-> Undefined, code |-> Undefined]
PendingPromise == [st |-> "pending", value |-> NoResult, message |-> Undefined, code |-> Undefined]
Resolved(result) == [st |-> "resolved", value |-> result, message |-> Undefined, code |-> Undefined]
\* reject(err): the caller observes err.message and err.code.
Rejected(err) == [st |-> "rejected", value |-> NoResult, message |-> err.message, code |-> err.code]

\* new Error(message): an Error object has a message and no code property.
MkError(message) == [message |-> message, code |-> Undefined]

\* Lines a server process can write to its stdout.
\* part: the line arrives whole in one 'data' event, or is the head or the
\* tail of a line that the pipe cut in two.
ResultLine(id, r) == [kind |-> "result", id |-> id, result |-> r, code |-> Undefined, message |-> Undefined, part |-> "whole"]
ErrorLine(id, c, m) == [kind |-> "error", id |-> id, result |-> NoResult, code |-> c, message |-> m, part |-> "whole"]
GarbageLine == [kind |-> "garbage", id |-> 0, result |-> NoResult, code |-> Undefined, message |-> Undefined, part |-> "whole"]
\* No line is cut at the end of the latest event.
NoLine == [kind |-> "none", id |-> 0, result |-> NoResult, code |-> Undefined, message |-> Undefined, part |-> "whole"]
\* One of the two pieces of a response line: the proper prefix or suffix of
\* a JSON object's text, which JSON.parse rejects.
Fragment(line, part) == [line EXCEPT !.kind = "garbage", !.part = part]

Lines ==
    {ResultLine(id, ResultFor(id)) : id \in RequestIds}
    \cup {ErrorLine(id, c, m) : id \in RequestIds, c \in ErrorCodes, m \in ErrorMessages}
    \cup {GarbageLine}

\* What data.toString().split('\n').filter(line => line.trim()) can yield.
Pieces ==
    Lines \cup {Fragment(line, part) : line \in Lines \ {GarbageLine},
                                      part \in {"head", "tail"}}

\* JSON.parse(line): throws on text that is not JSON, else the MCPResponse.
JsonParse(line) ==
    IF line.kind = "garbage"
    THEN [threw |-> TRUE, id |-> 0, hasError |-> FALSE,
          code |-> Undefined, message |-> Undefined, result |-> NoResult]
    ELSE [threw |-> FALSE, id |-> line.id, hasError |-> (line.kind = "error"),
          code |-> line.code, message |-> line.message, result |-> line.result]

\* resolve()/reject() on a promise that is already settled changes nothing.
SettlePromise(p, settled) == IF p.st = "pending" THEN settled ELSE p

\* reject(new Error(response.error.message)) / resolve(response.result)
SettlementOf(response) ==
    IF response.hasError
    THEN Rejected(MkError(response.message))
    ELSE Resolved(response.result)

\* Mutant of HandleLine: responses are matched to the oldest pending request,
\* as if the server answered in send order.
HandleLineInOrder(h, line) ==
    LET response == JsonParse(line)
        oldest == CHOOSE id \in h.pending : \A other \in h.pending : id <= other
    IN
    IF response.threw
    THEN [h EXCEPT !.discarded = @ \cup {"unparsable"}]
    ELSE IF response.id # 0 /\ h.pending # {}
    THEN [h EXCEPT !.pending = @ \ {oldest},
                   !.outcome[oldest] = SettlePromise(@, SettlementOf(response)),
                   !.settled = TRUE]
    ELSE [h EXCEPT !.discarded = @ \cup {"unknownId"}]

\* Mutant of HandleLine: a response whose id is not pending is an error that
\* escapes the listener.
HandleLineThrowOnUnknown(h, line) ==
    LET response == JsonParse(line) IN
    IF response.threw
    THEN [h EXCEPT !.discarded = @ \cup {"unparsable"}]
    ELSE IF response.id # 0 /\ response.id \in h.pending
    THEN [h EXCEPT !.pending = @ \ {response.id},
                   !.outcome[response.id] = SettlePromise(@, SettlementOf(response)),
                   !.settled = TRUE]
    ELSE [h EXCEPT !.uncaught = TRUE]

\* One iteration of the for loop of handleMCPResponse, on the handler's state
\* h = [pending, outcome, settled, discarded, uncaught].
HandleLine(h, line) ==
    LET response == JsonParse(line) IN
    IF response.threw
    THEN \* catch (error) { /* ignore */ }
         [h EXCEPT !.discarded = @ \cup {"unparsable"}]
    ELSE IF response.id # 0 /\ response.id \in h.pending
    THEN [h EXCEPT !.pending = @ \ {response.id},
                   !.outcome[response.id] = SettlePromise(@, SettlementOf(response)),
                   !.settled = TRUE]
    ELSE [h EXCEPT !.discarded = @ \cup {"unknownId"}]

\* Mutant of HandleLines: the try/catch encloses the whole loop, so the first
\* unparsable line ends the handling of the chunk.
RECURSIVE HandleLinesAbortOnGarbage(_, _)
HandleLinesAbortOnGarbage(h, lines) ==
    IF lines = <<>> THEN h
    ELSE IF JsonParse(Head(lines)).threw
    THEN [h EXCEPT !.discarded = @ \cup {"unparsable"}]
    ELSE HandleLinesAbortOnGarbage(HandleLine(h, Head(lines)), Tail(lines))

\* for (const line of lines) { try { ... } catch { } }
RECURSIVE HandleLines(_, _)
HandleLines(h, lines) ==
    IF lines = <<>> THEN h
    ELSE HandleLines(HandleLine(h, Head(lines)), Tail(lines))

\* handleMCPResponse(data): every non-empty line of the chunk, in order.
HandleMCPResponse(data) ==
    HandleLines([pending |-> pendingRequests, outcome |-> outcome,
                 settled |-> FALSE, discarded |-> {}, uncaught |-> uncaught],
                data)

\* this.requestId++
NextRequestId(rid) == rid + 1

\* Chunks a stdout 'data' event can carry: 1..MaxLines lines.
RECURSIVE SeqsUpTo(_, _)
SeqsUpTo(S, n) ==
    IF n = 0 THEN {<<>>}
    ELSE LET shorter == SeqsUpTo(S, n - 1) IN
         shorter \cup {Append(q, x) : q \in {r \in shorter : Len(r) = n - 1}, x \in S}

DataEvents == SeqsUpTo(Pieces, MaxLines) \ {<<>>}

\* The pipe delivers the server's output in order: a head piece ends its
\* event, and the event after it starts with the tail of the same line.
InStreamOrder(data) ==
    /\ \A i \in 1..Len(data) : data[i].part = "head" => i = Len(data)
    /\ \A i \in 1..Len(data) : data[i].part = "tail" => i = 1
    /\ IF stdoutPipe.partial = NoLine
       THEN data[1].part # "tail"
       ELSE data[1] = [stdoutPipe.partial EXCEPT !.part = "tail"]

\* The requests in the pending table whose whole newline-terminated response
\* line has reached the listener once this event is over.
ArrivedWhole(data) ==
    {id \in pendingRequests :
        \E i \in 1..Len(data) :
            /\ data[i].id = id
            /\ \/ data[i].part = "tail"
               \/ data[i].part = "whole" /\ data[i].kind # "garbage"}

\* ------------------------------------------------ WikiIndexManager: values
\* An absent or empty token / id (falsy in JavaScript).
NoToken == ""
NoSpace == <<>>

\* Space ids and keywords are strings; the cache key concatenates them.
W1 == <<"w", "1">>
W2 == <<"w", "2">>
K1 == <<"k", "1">>
K2 == <<"k", "2">>
WikiIds == {W1, W2}

\* WikiAgentConfig.spaceId / rootNodeToken of the agent the manager drives.
ConfigSpaceId == W1
RootNodeToken == "ROOT"

\* Search hits.  text is the set of words of `${title} ${content}`.toLowerCase().
ItemA == [node_token |-> "A", obj_token |-> "oA", space_id |-> W2, text |-> {"foo"}]
ItemB == [node_token |-> NoToken, obj_token |-> "B", space_id |-> NoSpace,
          text |-> {"foo", "bar"}]
ItemD == [node_token |-> "D", obj_token |-> "oD", space_id |-> W1,
          text |-> {"foo", "draft"}]
Tokens == {"A", "B", "D"}

\* What the remote search returns for a space and a query.
RemoteItems(space, query) ==
    IF space = W1 /\ query = K1 THEN <<ItemA, ItemB>>
    ELSE IF space = W1 /\ query = K2 THEN <<ItemD, ItemA>>
    ELSE IF space = W2 /\ query = K1 THEN <<ItemB>>
    ELSE <<>>

\* The remote search index changes over time: what it returns in its second
\* edition.
Editions == {1, 2}
RemoteItemsLater(space, query) ==
    IF space = W1 /\ query = K1 THEN <<ItemB, ItemD>>
    ELSE IF space = W1 /\ query = K2 THEN <<ItemA>>
    ELSE IF space = W2 /\ query = K1 THEN <<ItemA>>
    ELSE <<>>

\* Topics.  hasInclude / hasExclude: the optional pattern list is present.
T1 == [id |-> "T1", keywords |-> <<K1>>,
       hasInclude |-> FALSE, includePatterns |-> <<>>,
       hasExclude |-> FALSE, excludePatterns |-> <<>>]
T2 == [id |-> "T2", keywords |-> <<K2>>,
       hasInclude |-> TRUE, includePatterns |-> <<"foo">>,
       hasExclude |-> TRUE, excludePatterns |-> <<"draft">>]

\* A topic with two keywords, declared in this order.
T3 == [id |-> "T3", keywords |-> <<K2, K1>>,
       hasInclude |-> FALSE, includePatterns |-> <<>>,
       hasExclude |-> FALSE, excludePatterns |-> <<>>]

\* The IndexPage configurations callers register.
PageTokens == {"P1", "P2", "P3"}
PageConfig(token) ==
    CASE token = "P1" ->
             [nodeToken |-> "P1", spaceId |-> W1, topics |-> <<T1, T2>>,
              autoUpdate |-> TRUE]
      [] token = "P2" ->
             [nodeToken |-> "P2", spaceId |-> W2, topics |-> <<T1>>,
              autoUpdate |-> FALSE]
      [] OTHER ->
             [nodeToken |-> "P3", spaceId |-> W1, topics |-> <<T1>>,
              autoUpdate |-> TRUE]

\* Child nodes of an index page as the remote service lists them.
ShortcutChild(origin) == [node_type |-> "shortcut", origin_node_token |-> origin]
OrdinaryChild(origin) == [node_type |-> "origin", origin_node_token |-> origin]

\* What the caller of updateIndexPage sees thrown: the Error's message.
NoError == [message |-> <<>>]
\* new Error(`Index page not found: ${indexNodeToken}`)
NotFoundError(indexNodeToken) ==
    [message |-> <<"Index page not found: ", indexNodeToken>>]
\* The rejection of a remote call, passed on unchanged.
TransportError == [message |-> <<"MCP request failed">>]

\* The pass record of an updateIndexPage call that has not started.
\* calledRemote: the call has issued a request to the remote service.
IdlePass ==
    [pc |-> "idle", page |-> NoToken, error |-> NoError,
     calledRemote |-> FALSE,
     listed |-> {}, existing |-> {},
     topicIdx |-> 0,
     wikiIdx |-> 0, kwIdx |-> 0, allPages |-> <<>>, pages |-> <<>>,
     pageIdx |-> 0, attempts |-> <<>>, topicPages |-> <<>>,
     shortcutsAtStart |-> [t \in Tokens |-> <<>>]]

NoPrev == [done |-> FALSE, clean |-> FALSE, candidates |-> {}, created |-> {}]

\* The updateAllIndexPages call: not running, or at position idx of its loop
\* over this.indexPages.
NoBulk == [active |-> FALSE, idx |-> 0]

\* Calls the manager makes on its agent: the operation and its parameters.
GetSpaceInfoCall(spaceId) ==
    [op |-> "GET_SPACE_INFO", params |-> [space_id |-> spaceId]]
GetNodeInfoCall(nodeToken) ==
    [op |-> "GET_NODE_INFO", params |-> [node_token |-> nodeToken]]
ListNodesCall(parentNodeToken) ==
    [op |-> "LIST_NODES", params |-> [parent_node_token |-> parentNodeToken]]
SearchWikiCall(spaceId, keyword) ==
    [op |-> "SEARCH_WIKI", params |-> [space_id |-> spaceId, query |-> keyword]]
CreateNodeCall(params) == [op |-> "CREATE_NODE", params |-> params]

\* ---------------------------------------------- WikiIndexManager: helpers
\* const cacheKey = `${spaceId}-${keyword}`
CacheKey(spaceId, keyword) == spaceId \o <<"-">> \o keyword

\* LarkWikiMCPAgent.searchWiki: the request the agent sends for SEARCH_WIKI.
AgentSearchRequest(params) ==
    [space_id |-> ConfigSpaceId, query |-> params.query]

\* LarkWikiMCPAgent.createNode: the request the agent sends for CREATE_NODE.
AgentCreateNode(params) ==
    [space_id |-> ConfigSpaceId,
     parent_node_token |-> IF params.parent_node_token # NoToken
                           THEN params.parent_node_token ELSE RootNodeToken,
     node_type |-> IF params.node_type # NoToken THEN params.node_type ELSE "origin",
     obj_type |-> "docx"]

\* page.node_token || page.obj_token
KeyOf(page) == IF page.node_token # NoToken THEN page.node_token ELSE page.obj_token

\* pattern.test(text)
PatternTest(pattern, text) == pattern \in text

\* Mutant of Accepts: the include patterns are tried before the exclude
\* patterns.
AcceptsIncludeFirst(topic, result) ==
    IF topic.hasInclude
       /\ \E i \in 1..Len(topic.includePatterns) :
              PatternTest(topic.includePatterns[i], result.text)
    THEN TRUE
    ELSE IF topic.hasExclude
            /\ \E i \in 1..Len(topic.excludePatterns) :
                   PatternTest(topic.excludePatterns[i], result.text)
    THEN FALSE
    ELSE ~topic.hasInclude

\* Mutant of Accepts: a hit that matches no include pattern is kept.
AcceptsWithoutInclude(topic, result) ==
    ~(topic.hasExclude
      /\ \E i \in 1..Len(topic.excludePatterns) :
             PatternTest(topic.excludePatterns[i], result.text))

\* The predicate of filterResults.
Accepts(topic, result) ==
    IF topic.hasExclude
       /\ \E i \in 1..Len(topic.excludePatterns) :
              PatternTest(topic.excludePatterns[i], result.text)
    THEN FALSE
    ELSE IF topic.hasInclude
    THEN \E i \in 1..Len(topic.includePatterns) :
             PatternTest(topic.includePatterns[i], result.text)
    ELSE TRUE

\* filterResults(results, topic)
FilterResults(results, topic) ==
    LET Keep(result) == Accepts(topic, result) IN SelectSeq(results, Keep)

\* Mutant of RemoveDuplicatesFrom: seen.set(key, page) for every page, so the
\* last occurrence of a key replaces the earlier one.
RECURSIVE RemoveDuplicatesLastWins(_, _)
RemoveDuplicatesLastWins(pages, seen) ==
    IF pages = <<>> THEN <<>>
    ELSE LET page == Head(pages)
             key == KeyOf(page)
             rest == RemoveDuplicatesLastWins(Tail(pages), seen \cup {key})
         IN IF key = NoToken \/ key \in seen THEN rest
            ELSE IF \E j \in 2..Len(pages) : KeyOf(pages[j]) = key
                 THEN <<pages[CHOOSE j \in 2..Len(pages) :
                                /\ KeyOf(pages[j]) = key
                                /\ \A k \in (j + 1)..Len(pages) :
                                       KeyOf(pages[k]) # key]>> \o rest
                 ELSE <<page>> \o rest

\* removeDuplicates(pages): first occurrence of each key, in order.
RECURSIVE RemoveDuplicatesFrom(_, _)
RemoveDuplicatesFrom(pages, seen) ==
    IF pages = <<>> THEN <<>>
    ELSE LET page == Head(pages)
             key == KeyOf(page)
         IN IF key # NoToken /\ key \notin seen
            THEN <<page>> \o RemoveDuplicatesFrom(Tail(pages), seen \cup {key})
            ELSE RemoveDuplicatesFrom(Tail(pages), seen)

RemoveDuplicates(pages) == RemoveDuplicatesFrom(pages, {})

\* Inputs of the matcher's two pure steps.  A pattern is the word a RegExp
\* without the g or y flag looks for, so test() keeps no state between calls.
Words == {"foo", "draft"}
PatternLists == SeqsUpTo(Words, MaxPatterns)
\* Topic.includePatterns / excludePatterns: absent, or a list (maybe empty).
Topics ==
    {[id |-> "T", keywords |-> <<K1>>,
      hasInclude |-> hi, includePatterns |-> IF hi THEN inc ELSE <<>>,
      hasExclude |-> he, excludePatterns |-> IF he THEN exc ELSE <<>>] :
        hi \in BOOLEAN, he \in BOOLEAN, inc \in PatternLists, exc \in PatternLists}
\* Hits that differ in their text only.
FilterHits ==
    {[node_token |-> "A", obj_token |-> "oA", space_id |-> NoSpace, text |-> t] :
        t \in SUBSET Words}
\* Hits that share identities through either token, differ in content, or
\* carry no token at all.
DedupHits ==
    {[node_token |-> n, obj_token |-> o, space_id |-> NoSpace, text |-> {t}] :
        n \in {NoToken, "A"}, o \in {NoToken, "A", "B"}, t \in Words}
NoCall == [op |-> "none", topic |-> T1, input |-> <<>>, output |-> <<>>]

\* Mutant of ExistingTokens: children of every node type count as links.
ExistingTokensUnfiltered(children) ==
    {n.origin_node_token : n \in children}

\* Mutant of ExistingTokens: the listing is ignored.
ExistingTokensEmpty(children) == {}

\* getExistingShortcuts + new Set(existingNodes.map(n => n.origin_node_token))
ExistingTokens(children) ==
    {n.origin_node_token : n \in {c \in children : c.node_type = "shortcut"}}

\* getStatistics().totalShortcuts
RECURSIVE SumLengths(_, _)
SumLengths(map, keys) ==
    IF keys = {} THEN 0
    ELSE LET k == CHOOSE x \in keys : TRUE
         IN Len(map[k]) + SumLengths(map, keys \ {k})

\* Mutant of TotalShortcuts: a key of the Map counts once, however many
\* records its list holds.
TotalShortcutsPerKey(map) == Cardinality({t \in Tokens : Len(map[t]) > 0})

TotalShortcuts(map) == SumLengths(map, Tokens)

\* The keys of the shortcuts Map in the order getStatistics visits them.
TokenOrder == <<"A", "B", "D">>

\* Mutant of DuplicatePages: every key with a record is pushed.
DuplicatePagesAll(map) ==
    LET Recorded(t) == Len(map[t]) > 0 IN SelectSeq(TokenOrder, Recorded)

\* getStatistics().duplicatePages: a key is pushed when its list has more
\* than one element.
DuplicatePages(map) ==
    LET Several(t) == Len(map[t]) > 1 IN SelectSeq(TokenOrder, Several)

\* The places <<key, i>> of the ShortcutInfo records in the shortcuts Map.
Places(map) == UNION {{<<t, i>> : i \in 1..Len(map[t])} : t \in Tokens}

\* getStatistics().shortcutsByTopic: a topic id gets an entry with its first
\* record, and the entry is incremented with every further one.
ShortcutsByTopic(map) ==
    [id \in {map[p[1]][p[2]].topicId : p \in Places(map)} |->
        Cardinality({p \in Places(map) : map[p[1]][p[2]].topicId = id})]

\* The value getStatistics returns.
Statistics ==
    [totalWikis |-> Len(wikis),
     totalIndexPages |-> Len(indexPages),
     totalShortcuts |-> TotalShortcuts(shortcuts),
     shortcutsByTopic |-> ShortcutsByTopic(shortcuts),
     duplicatePages |-> DuplicatePages(shortcuts)]

\* No getStatistics value at hand.
NoStats ==
    [totalWikis |-> -1, totalIndexPages |-> -1, totalShortcuts |-> -1,
     shortcutsByTopic |-> <<>>, duplicatePages |-> <<>>]

Range(q) == {q[i] : i \in 1..Len(q)}

\* The topic and the wiki the pass is working on.
CurrentTopic == PageConfig(pass.page).topics[pass.topicIdx]
CurrentWiki == wikis[pass.wikiIdx]
CurrentKeyword == CurrentTopic.keywords[pass.kwIdx]
CurrentPage == pass.pages[pass.pageIdx]

\* No updateIndexPage call is suspended at an await.
NotRunning == pass.pc \in {"idle", "done", "rejected"}

\* The manager is idle: its caller may start an operation.
DirectCall == NotRunning /\ ~bulk.active

\* Mutant of Skipped: updateAllIndexPages does not look at autoUpdate.
SkippedNever(token) == FALSE

\* if (!indexPage.autoUpdate) continue;
Skipped(token) == ~PageConfig(token).autoUpdate

\* updateIndexPage(token) is called either by the manager's caller or by the
\* loop of updateAllIndexPages, for the page the loop is at.
CalledFor(token) ==
    /\ NotRunning
    /\ bulk.active =>
          /\ bulk.idx <= Len(indexPages)
          /\ token = indexPages[bulk.idx]
          /\ ~Skipped(token)

\* The loop of updateAllIndexPages moves on once updateIndexPage has been
\* called for its current page.
AfterCall == IF bulk.active THEN [bulk EXCEPT !.idx = @ + 1] ELSE bulk

\* An updateIndexPage call that has not started.  outstanding: its remote
\* calls that have not settled; issued: every remote call it has made.
IdleFlow ==
    [pc |-> "idle", config |-> PageConfig("P1"), topicIdx |-> 0,
     searchIdx |-> 0, allPages |-> <<>>, pages |-> <<>>, pageIdx |-> 0,
     existing |-> {}, outstanding |-> {}, issued |-> <<>>]

InitManagerState ==
    /\ matcher = NoCall
    /\ wikis = <<>>
    /\ indexPages = <<>>
    /\ shortcuts = [t \in Tokens |-> <<>>]
    /\ searchCache = <<>>
    /\ remoteChildren = [p \in PageTokens |-> {}]
    /\ pass = IdlePass
    /\ prev = [p \in PageTokens |-> NoPrev]
    /\ runs = 0
    /\ stats = NoStats
    /\ successes = 0
    /\ bulk = NoBulk
    /\ calls = <<>>
    /\ searched = {}
    /\ edition = 1
    /\ delays = <<>>
    /\ cmdCall = IdleCall
    /\ flows = [f \in 1..MaxFlows |-> IdleFlow]
    /\ invoked = <<>>
    /\ rollbacks = <<>>

\* ----------------------------------------------- LarkWikiMCPAgent: actions
\* Mutant of SendMCPRequest: the request is written before the continuation
\* is stored.
SendMCPRequestWriteFirst(proc) ==
    LET id == requestId IN
    /\ requestId' = NextRequestId(requestId)
    /\ written' = IF proc # NoProc
                  THEN written \cup {[id |-> id, stored |-> id \in pendingRequests]}
                  ELSE written
    /\ pendingRequests' = pendingRequests \cup {id}
    /\ issued' = Append(issued, id)
    /\ outcome' = [outcome EXCEPT ![id] =
                      IF proc # NoProc
                      THEN PendingPromise
                      ELSE Rejected(MkError(NotInitializedMessage))]

\* sendMCPRequest(method, params) with this.mcpProcess = proc: the id is
\* allocated, the continuation stored, and then the request is written to
\* the process's stdin or, without a process, the promise rejected.  `stored`
\* records whether the continuation was in the table when the write happened.
SendMCPRequest(proc) ==
    LET id == requestId
        table == pendingRequests \cup {id}
    IN
    /\ requestId' = NextRequestId(requestId)
    /\ pendingRequests' = table
    /\ written' = IF proc # NoProc
                  THEN written \cup {[id |-> id, stored |-> id \in table]}
                  ELSE written
    /\ issued' = Append(issued, id)
    /\ outcome' = [outcome EXCEPT ![id] =
                      IF proc # NoProc
                      THEN PendingPromise
                      ELSE Rejected(MkError(NotInitializedMessage))]

\* initialize() up to its first await: startMCPServer spawns the server,
\* attaches the listeners and sends the 'initialize' request.
Initialize ==
    /\ ~initialized
    /\ requestId <= MaxRequests
    /\ listening' = TRUE
    /\ spawnedSinceClose' = spawnedSinceClose + 1
    /\ mcpProcess' = TheProc
    /\ procRunning' = TRUE
    /\ SendMCPRequest(TheProc)
    /\ initCalls' = initCalls \cup {[stage |-> "handshake", id |-> requestId]}
    /\ stdoutPipe' = [stdoutPipe EXCEPT !.partial = NoLine]
    /\ UNCHANGED <<initialized, lastEvent, uncaught>>
    /\ UNCHANGED <<mgrVars, matcherVars, execVars, flowVars>>

\* initialize() resumes after the 'initialize' request resolved: discoverTools
\* sends 'tools/list'.
InitDiscoverTools(c) ==
    /\ c \in initCalls
    /\ c.stage = "handshake"
    /\ outcome[c.id].st = "resolved"
    /\ requestId <= MaxRequests
    /\ SendMCPRequest(mcpProcess)
    /\ initCalls' = (initCalls \ {c}) \cup {[stage |-> "tools", id |-> requestId]}
    /\ UNCHANGED <<mcpProcess, procRunning, initialized, listening,
                   spawnedSinceClose, lastEvent, uncaught, stdoutPipe>>
    /\ UNCHANGED <<mgrVars, matcherVars, execVars, flowVars>>

\* initialize() resumes after 'tools/list' resolved: this.initialized = true.
InitDone(c) ==
    /\ c \in initCalls
    /\ c.stage = "tools"
    /\ outcome[c.id].st = "resolved"
    /\ initialized' = TRUE
    /\ initCalls' = initCalls \ {c}
    /\ UNCHANGED <<mcpProcess, procRunning, requestId, pendingRequests, outcome,
                   issued, written, listening, spawnedSinceClose, lastEvent, uncaught, stdoutPipe>>
    /\ UNCHANGED <<mgrVars, matcherVars, execVars, flowVars>>

\* initialize() resumes with a rejected request: the catch block rethrows.
InitFail(c) ==
    /\ c \in initCalls
    /\ outcome[c.id].st = "rejected"
    /\ initCalls' = initCalls \ {c}
    /\ UNCHANGED <<mcpProcess, procRunning, requestId, pendingRequests,
                   initialized, outcome, issued, written, listening, spawnedSinceClose,
                   lastEvent, uncaught, stdoutPipe>>
    /\ UNCHANGED <<mgrVars, matcherVars, execVars, flowVars>>

\* The spawned process emits 'error' while startMCPServer still awaits the
\* 'initialize' response: the listener rejects, initialize() rethrows.  The
\* 'initialize' request stays in the pending table.
ProcError(c) ==
    /\ c \in initCalls
    /\ c.stage = "handshake"
    /\ outcome[c.id].st = "pending"
    /\ initCalls' = initCalls \ {c}
    /\ UNCHANGED <<mcpProcess, procRunning, requestId, pendingRequests,
                   initialized, outcome, issued, written, listening, spawnedSinceClose,
                   lastEvent, uncaught, stdoutPipe>>
    /\ UNCHANGED <<mgrVars, matcherVars, execVars, flowVars>>

\* callMCPTool(toolName, args): one 'tools/call' request.
CallMCPTool ==
    /\ requestId <= MaxRequests
    /\ SendMCPRequest(mcpProcess)
    /\ UNCHANGED <<mcpProcess, procRunning, initialized, initCalls, listening,
                   spawnedSinceClose, lastEvent, uncaught, stdoutPipe>>
    /\ UNCHANGED <<mgrVars, matcherVars, execVars, flowVars>>

\* stdout 'data' listener of a spawned process: handleMCPResponse(data).
OnStdoutData(data) ==
    /\ listening
    /\ InStreamOrder(data)
    /\ stdoutPipe' =
           [partial |-> IF data[Len(data)].part = "head"
                        THEN data[Len(data)] ELSE NoLine,
            delivered |-> stdoutPipe.delivered \cup ArrivedWhole(data)]
    /\ LET h == HandleMCPResponse(data) IN
        /\ pendingRequests' = h.pending
        /\ outcome' = h.outcome
        /\ lastEvent' = [settled |-> h.settled, discarded |-> h.discarded]
        /\ uncaught' = h.uncaught
    /\ UNCHANGED <<mcpProcess, procRunning, requestId, initialized, issued, written,
                   initCalls, listening, spawnedSinceClose>>
    /\ UNCHANGED <<mgrVars, matcherVars, execVars, flowVars>>

\* The server process exits by itself; the agent listens to no 'exit' event
\* and keeps its reference to the process.
ProcExit ==
    /\ mcpProcess # NoProc
    /\ procRunning
    /\ procRunning' = FALSE
    /\ UNCHANGED <<mcpProcess, requestId, pendingRequests, initialized, outcome,
                   issued, written, initCalls, listening, spawnedSinceClose, lastEvent, uncaught, stdoutPipe>>
    /\ UNCHANGED <<mgrVars, matcherVars, execVars, flowVars>>

\* Mutant of Close: close() also restarts the id counter.
CloseResettingIds ==
    /\ IF mcpProcess # NoProc
       THEN /\ procRunning' = FALSE
            /\ mcpProcess' = NoProc
       ELSE UNCHANGED <<procRunning, mcpProcess>>
    /\ initialized' = FALSE
    /\ spawnedSinceClose' = 0
    /\ requestId' = 1
    /\ UNCHANGED <<pendingRequests, outcome, issued, written, initCalls, listening,
                   lastEvent, uncaught, stdoutPipe>>
    /\ UNCHANGED <<mgrVars, matcherVars, execVars, flowVars>>

\* close(): kill the process, forget it, clear the initialized flag.
Close ==
    /\ IF mcpProcess # NoProc
       THEN /\ procRunning' = FALSE
            /\ mcpProcess' = NoProc
       ELSE UNCHANGED <<procRunning, mcpProcess>>
    /\ initialized' = FALSE
    /\ spawnedSinceClose' = 0
    /\ UNCHANGED <<requestId, pendingRequests, outcome, issued, written, initCalls,
                   listening, lastEvent, uncaught, stdoutPipe>>
    /\ UNCHANGED <<mgrVars, matcherVars, execVars, flowVars>>

InitCorr ==
    /\ mcpProcess = NoProc
    /\ procRunning = FALSE
    /\ requestId = 1
    /\ pendingRequests = {}
    /\ initialized = FALSE
    /\ outcome = [id \in RequestIds |-> NoPromise]
    /\ issued = <<>>
    /\ written = {}
    /\ initCalls = {}
    /\ listening = FALSE
    /\ spawnedSinceClose = 0
    /\ lastEvent = [settled |-> FALSE, discarded |-> {}]
    /\ uncaught = FALSE
    /\ stdoutPipe = [partial |-> NoLine, delivered |-> {}]
    /\ variant = "LarkWikiMCPAgent"
    /\ InitManagerState

NextCorr ==
    \/ Initialize
    \/ \E c \in initCalls : InitDiscoverTools(c)
    \/ \E c \in initCalls : InitDone(c)
    \/ \E c \in initCalls : InitFail(c)
    \/ \E c \in initCalls : ProcError(c)
    \/ CallMCPTool
    \/ \E data \in DataEvents : OnStdoutData(data)
    \/ ProcExit
    \/ Close

SpecCorr == InitCorr /\ [][NextCorr]_vars

\* ---------------------------------------------- WikiIndexManager: actions
\* Registrations precede the first update, as in the CLI and the example.
\* registerWiki(spaceId, searchEnabled) whose GET_SPACE_INFO call succeeded.
RegisterWiki(spaceId, searchEnabled) ==
    /\ DirectCall
    /\ runs = 0
    /\ \A i \in 1..Len(wikis) : wikis[i].spaceId # spaceId
    /\ wikis' = Append(wikis, [spaceId |-> spaceId, searchEnabled |-> searchEnabled])
    /\ UNCHANGED <<indexPages, shortcuts, searchCache, remoteChildren, pass,
                   prev, runs>>
    /\ stats' = NoStats
    /\ calls' = <<GetSpaceInfoCall(spaceId)>>
    /\ UNCHANGED <<successes, bulk, searched, edition, delays>>
    /\ UNCHANGED <<corrVars, matcherVars, execVars, flowVars>>

\* registerIndexPage(config) whose GET_NODE_INFO call returned the node.
RegisterIndexPage(token) ==
    /\ DirectCall
    /\ runs = 0
    /\ token \notin Range(indexPages)
    /\ Len(indexPages) < MaxPages
    /\ indexPages' = Append(indexPages, token)
    /\ UNCHANGED <<wikis, shortcuts, searchCache, remoteChildren, pass, prev,
                   runs>>
    /\ stats' = NoStats
    /\ calls' = <<GetNodeInfoCall(token)>>
    /\ UNCHANGED <<successes, bulk, searched, edition, delays>>
    /\ UNCHANGED <<corrVars, matcherVars, execVars, flowVars>>

\* Mutant of UpdateIndexPageUnknown: the unknown token is listed anyway and
\* the update goes through an empty topic loop.
UpdateIndexPageUnknownListed(token) ==
    /\ DirectCall
    /\ token \notin Range(indexPages)
    /\ pass' = [IdlePass EXCEPT !.pc = "done", !.page = token,
                                !.calledRemote = TRUE,
                                !.listed = remoteChildren[token],
                                !.shortcutsAtStart = shortcuts]
    /\ UNCHANGED <<wikis, indexPages, shortcuts, searchCache, remoteChildren,
                   prev, runs>>
    /\ stats' = NoStats
    /\ calls' = <<ListNodesCall(token)>>
    /\ UNCHANGED <<successes, bulk, searched, edition>>
    /\ delays' = <<>>
    /\ UNCHANGED <<corrVars, matcherVars, execVars, flowVars>>

\* updateIndexPage(token) for a token that is not in indexPages: throws.
UpdateIndexPageUnknown(token) ==
    /\ DirectCall
    /\ token \notin Range(indexPages)
    /\ pass' = [IdlePass EXCEPT !.pc = "rejected", !.page = token,
                                !.error = NotFoundError(token),
                                !.shortcutsAtStart = shortcuts]
    /\ UNCHANGED <<wikis, indexPages, shortcuts, searchCache, remoteChildren,
                   prev, runs>>
    /\ stats' = NoStats
    /\ calls' = <<>>
    /\ UNCHANGED <<successes, bulk, searched, edition>>
    /\ delays' = <<>>
    /\ UNCHANGED <<corrVars, matcherVars, execVars, flowVars>>

\* updateIndexPage(token) up to the topic loop: LIST_NODES succeeded.
UpdateIndexPageListed(token) ==
    /\ CalledFor(token)
    /\ runs < MaxRuns
    /\ token \in Range(indexPages)
    /\ runs' = runs + 1
    /\ pass' = [IdlePass EXCEPT
                   !.pc = "topic",
                   !.page = token,
                   !.calledRemote = TRUE,
                   !.listed = remoteChildren[token],
                   !.existing = ExistingTokens(remoteChildren[token]),
                   !.topicIdx = 1,
                   !.shortcutsAtStart = shortcuts]
    /\ UNCHANGED <<wikis, indexPages, shortcuts, searchCache, remoteChildren,
                   prev>>
    /\ stats' = NoStats
    /\ calls' = <<ListNodesCall(token)>>
    /\ bulk' = AfterCall
    /\ UNCHANGED <<successes, searched, edition>>
    /\ delays' = <<>>
    /\ UNCHANGED <<corrVars, matcherVars, execVars, flowVars>>

\* Mutant of UpdateIndexPageListFailed: the rejection leaves the loop of
\* updateAllIndexPages, which rejects with it.
UpdateIndexPageListFailedAborts(token) ==
    /\ CalledFor(token)
    /\ runs < MaxRuns
    /\ token \in Range(indexPages)
    /\ runs' = runs + 1
    /\ pass' = [IdlePass EXCEPT !.pc = "rejected", !.page = token,
                                !.error = TransportError, !.calledRemote = TRUE,
                                !.shortcutsAtStart = shortcuts]
    /\ prev' = [prev EXCEPT ![token] = NoPrev]
    /\ UNCHANGED <<wikis, indexPages, shortcuts, searchCache, remoteChildren>>
    /\ stats' = NoStats
    /\ calls' = <<ListNodesCall(token)>>
    /\ bulk' = NoBulk
    /\ UNCHANGED <<successes, searched, edition>>
    /\ delays' = <<>>
    /\ UNCHANGED <<corrVars, matcherVars, execVars, flowVars>>

\* updateIndexPage(token) whose LIST_NODES call rejected: the error propagates.
UpdateIndexPageListFailed(token) ==
    /\ CalledFor(token)
    /\ runs < MaxRuns
    /\ token \in Range(indexPages)
    /\ runs' = runs + 1
    /\ pass' = [IdlePass EXCEPT !.pc = "rejected", !.page = token,
                                !.error = TransportError, !.calledRemote = TRUE,
                                !.shortcutsAtStart = shortcuts]
    /\ prev' = [prev EXCEPT ![token] = NoPrev]
    /\ UNCHANGED <<wikis, indexPages, shortcuts, searchCache, remoteChildren>>
    /\ stats' = NoStats
    /\ calls' = <<ListNodesCall(token)>>
    /\ bulk' = AfterCall
    /\ UNCHANGED <<successes, searched, edition>>
    /\ delays' = <<>>
    /\ UNCHANGED <<corrVars, matcherVars, execVars, flowVars>>

\* for (const topic of indexPage.topics): collectTopicPages(topic) begins.
BeginTopic ==
    /\ pass.pc = "topic"
    /\ pass.topicIdx <= Len(PageConfig(pass.page).topics)
    /\ pass' = [pass EXCEPT !.pc = "search", !.wikiIdx = 1, !.kwIdx = 1,
                            !.allPages = <<>>]
    /\ UNCHANGED <<wikis, indexPages, shortcuts, searchCache, remoteChildren,
                   prev, runs>>
    /\ stats' = NoStats
    /\ calls' = <<>>
    /\ UNCHANGED <<successes, bulk, searched, edition, delays>>
    /\ UNCHANGED <<corrVars, matcherVars, execVars, flowVars>>

\* collectTopicPages: a wiki with searchEnabled = false is skipped, and the
\* keyword loop of a wiki ends.
NextWiki ==
    /\ pass.pc = "search"
    /\ pass.wikiIdx <= Len(wikis)
    /\ \/ ~CurrentWiki.searchEnabled
       \/ pass.kwIdx > Len(CurrentTopic.keywords)
    /\ pass' = [pass EXCEPT !.wikiIdx = @ + 1, !.kwIdx = 1]
    /\ UNCHANGED <<wikis, indexPages, shortcuts, searchCache, remoteChildren,
                   prev, runs>>
    /\ stats' = NoStats
    /\ calls' = <<>>
    /\ UNCHANGED <<successes, bulk, searched, edition, delays>>
    /\ UNCHANGED <<corrVars, matcherVars, execVars, flowVars>>

SearchEnabledHere ==
    /\ pass.pc = "search"
    /\ pass.wikiIdx <= Len(wikis)
    /\ CurrentWiki.searchEnabled
    /\ pass.kwIdx <= Len(CurrentTopic.keywords)

\* What the remote search returns now.
RemoteSearch(space, query) ==
    IF edition = 1 THEN RemoteItems(space, query)
    ELSE RemoteItemsLater(space, query)

\* A value searchWiki(spaceId, keyword) returned.
Found(spaceId, keyword, items) ==
    [space_id |-> spaceId, query |-> keyword, items |-> items]

\* Mutant of SearchCached: a cached pair is searched remotely again.
SearchCachedRefetch ==
    /\ SearchEnabledHere
    /\ LET key == CacheKey(CurrentWiki.spaceId, CurrentKeyword)
           request == AgentSearchRequest([space_id |-> CurrentWiki.spaceId,
                                          query |-> CurrentKeyword])
           items == RemoteSearch(request.space_id, request.query)
       IN
        /\ key \in DOMAIN searchCache
        /\ searchCache' = [searchCache EXCEPT ![key] = items]
        /\ pass' = [pass EXCEPT
                       !.allPages = @ \o FilterResults(items, CurrentTopic),
                       !.kwIdx = @ + 1]
        /\ searched' = searched \cup
                           {Found(CurrentWiki.spaceId, CurrentKeyword, items)}
    /\ UNCHANGED <<wikis, indexPages, shortcuts, remoteChildren, prev, runs>>
    /\ stats' = NoStats
    /\ calls' = <<SearchWikiCall(CurrentWiki.spaceId, CurrentKeyword)>>
    /\ UNCHANGED <<successes, bulk, edition, delays>>
    /\ UNCHANGED <<corrVars, matcherVars, execVars, flowVars>>

\* searchWiki answered from the cache, then filterResults.
SearchCached ==
    /\ SearchEnabledHere
    /\ LET key == CacheKey(CurrentWiki.spaceId, CurrentKeyword) IN
        /\ key \in DOMAIN searchCache
        /\ pass' = [pass EXCEPT
                       !.allPages = @ \o FilterResults(searchCache[key], CurrentTopic),
                       !.kwIdx = @ + 1]
        /\ searched' = searched \cup
                           {Found(CurrentWiki.spaceId, CurrentKeyword,
                                  searchCache[key])}
    /\ UNCHANGED <<wikis, indexPages, shortcuts, searchCache, remoteChildren,
                   prev, runs>>
    /\ stats' = NoStats
    /\ calls' = <<>>
    /\ UNCHANGED <<successes, bulk, edition, delays>>
    /\ UNCHANGED <<corrVars, matcherVars, execVars, flowVars>>

\* searchWiki whose SEARCH_WIKI call succeeded: cached, then filterResults.
SearchRemote ==
    /\ SearchEnabledHere
    /\ LET key == CacheKey(CurrentWiki.spaceId, CurrentKeyword)
           request == AgentSearchRequest([space_id |-> CurrentWiki.spaceId,
                                          query |-> CurrentKeyword])
           items == RemoteSearch(request.space_id, request.query)
       IN
        /\ key \notin DOMAIN searchCache
        /\ searchCache' = (key :> items) @@ searchCache
        /\ pass' = [pass EXCEPT
                       !.allPages = @ \o FilterResults(items, CurrentTopic),
                       !.kwIdx = @ + 1]
        /\ searched' = searched \cup
                           {Found(CurrentWiki.spaceId, CurrentKeyword, items)}
    /\ UNCHANGED <<wikis, indexPages, shortcuts, remoteChildren, prev, runs>>
    /\ stats' = NoStats
    /\ calls' = <<SearchWikiCall(CurrentWiki.spaceId, CurrentKeyword)>>
    /\ UNCHANGED <<successes, bulk, edition, delays>>
    /\ UNCHANGED <<corrVars, matcherVars, execVars, flowVars>>

\* searchWiki whose SEARCH_WIKI call rejected: collectTopicPages logs it and
\* goes on with the next keyword.
SearchRemoteFailed ==
    /\ SearchEnabledHere
    /\ CacheKey(CurrentWiki.spaceId, CurrentKeyword) \notin DOMAIN searchCache
    /\ pass' = [pass EXCEPT !.kwIdx = @ + 1]
    /\ UNCHANGED <<wikis, indexPages, shortcuts, searchCache, remoteChildren,
                   prev, runs>>
    /\ stats' = NoStats
    /\ calls' = <<SearchWikiCall(CurrentWiki.spaceId, CurrentKeyword)>>
    /\ UNCHANGED <<successes, bulk, searched, edition, delays>>
    /\ UNCHANGED <<corrVars, matcherVars, execVars, flowVars>>

\* collectTopicPages returns removeDuplicates(allPages).
FinishCollect ==
    /\ pass.pc = "search"
    /\ pass.wikiIdx > Len(wikis)
    /\ LET unique == RemoveDuplicates(pass.allPages) IN
       pass' = [pass EXCEPT
                   !.pc = "apply",
                   !.pages = unique,
                   !.pageIdx = 1,
                   !.topicPages = Append(@, [i \in 1..Len(unique) |-> KeyOf(unique[i])])]
    /\ UNCHANGED <<wikis, indexPages, shortcuts, searchCache, remoteChildren,
                   prev, runs>>
    /\ stats' = NoStats
    /\ calls' = <<>>
    /\ UNCHANGED <<successes, bulk, searched, edition, delays>>
    /\ UNCHANGED <<corrVars, matcherVars, execVars, flowVars>>

\* if (existingTokens.has(targetToken)) { skipped++; continue; }
SkipExisting ==
    /\ pass.pc = "apply"
    /\ pass.pageIdx <= Len(pass.pages)
    /\ KeyOf(CurrentPage) \in pass.existing
    /\ pass' = [pass EXCEPT !.pageIdx = @ + 1]
    /\ UNCHANGED <<wikis, indexPages, shortcuts, searchCache, remoteChildren,
                   prev, runs>>
    /\ stats' = NoStats
    /\ calls' = <<>>
    /\ UNCHANGED <<successes, bulk, searched, edition, delays>>
    /\ UNCHANGED <<corrVars, matcherVars, execVars, flowVars>>

\* The CREATE_NODE parameters createShortcut passes to the agent.
CreateShortcutParams(indexNodeToken, targetNodeToken, targetSpaceId) ==
    [parent_node_token |-> indexNodeToken, node_type |-> "shortcut",
     origin_node_token |-> targetNodeToken, origin_space_id |-> targetSpaceId]

\* page.space_id || indexPage.spaceId
TargetSpaceOf(page, indexPage) ==
    IF page.space_id # NoSpace THEN page.space_id ELSE indexPage.spaceId

\* Mutant of CreateShortcutFailed: the failure is rethrown out of
\* updateIndexPage.
CreateShortcutFailedAborts ==
    /\ pass.pc = "apply"
    /\ pass.pageIdx <= Len(pass.pages)
    /\ KeyOf(CurrentPage) \notin pass.existing
    /\ pass' = [pass EXCEPT
                   !.attempts = Append(@, [topic |-> pass.topicIdx,
                                           target |-> KeyOf(CurrentPage),
                                           ok |-> FALSE]),
                   !.error = TransportError,
                   !.pc = "rejected"]
    /\ UNCHANGED <<wikis, indexPages, shortcuts, searchCache, remoteChildren,
                   prev, runs>>
    /\ stats' = NoStats
    /\ calls' = <<CreateNodeCall(CreateShortcutParams(
                      pass.page, KeyOf(CurrentPage),
                      TargetSpaceOf(CurrentPage, PageConfig(pass.page))))>>
    /\ UNCHANGED <<successes, bulk, searched, edition>>
    /\ delays' = Append(delays, FALSE)
    /\ UNCHANGED <<corrVars, matcherVars, execVars, flowVars>>

\* createShortcut succeeded: the ShortcutInfo is recorded, then delay(500).
\* The remote service adds a child to the index node; whether its listing
\* names the target as the child's origin_node_token is the service's doing.
CreateShortcutOk(origin) ==
    /\ pass.pc = "apply"
    /\ pass.pageIdx <= Len(pass.pages)
    /\ KeyOf(CurrentPage) \notin pass.existing
    /\ origin \in {KeyOf(CurrentPage), NoToken}
    /\ LET target == KeyOf(CurrentPage)
           space == TargetSpaceOf(CurrentPage, PageConfig(pass.page))
           request == AgentCreateNode(CreateShortcutParams(pass.page, target, space))
           info == [targetNodeToken |-> target, targetSpaceId |-> space,
                    indexNodeToken |-> pass.page, topicId |-> CurrentTopic.id]
       IN
        /\ remoteChildren' =
               [remoteChildren EXCEPT ![request.parent_node_token] =
                    @ \cup {[node_type |-> request.node_type,
                             origin_node_token |-> origin]}]
        /\ shortcuts' = [shortcuts EXCEPT ![target] = Append(@, info)]
        /\ pass' = [pass EXCEPT
                       !.attempts = Append(@, [topic |-> pass.topicIdx,
                                               target |-> target, ok |-> TRUE]),
                       !.pageIdx = @ + 1]
    /\ UNCHANGED <<wikis, indexPages, searchCache, prev, runs>>
    /\ stats' = NoStats
    /\ calls' = <<CreateNodeCall(CreateShortcutParams(
                      pass.page, KeyOf(CurrentPage),
                      TargetSpaceOf(CurrentPage, PageConfig(pass.page))))>>
    /\ successes' = successes + 1
    /\ UNCHANGED <<bulk, searched, edition>>
    /\ delays' = Append(delays, TRUE)
    /\ UNCHANGED <<corrVars, matcherVars, execVars, flowVars>>

\* createShortcut rejected: the catch block logs and the loop goes on.
CreateShortcutFailed ==
    /\ pass.pc = "apply"
    /\ pass.pageIdx <= Len(pass.pages)
    /\ KeyOf(CurrentPage) \notin pass.existing
    /\ pass' = [pass EXCEPT
                   !.attempts = Append(@, [topic |-> pass.topicIdx,
                                           target |-> KeyOf(CurrentPage),
                                           ok |-> FALSE]),
                   !.pageIdx = @ + 1]
    /\ UNCHANGED <<wikis, indexPages, shortcuts, searchCache, remoteChildren,
                   prev, runs>>
    /\ stats' = NoStats
    /\ calls' = <<CreateNodeCall(CreateShortcutParams(
                      pass.page, KeyOf(CurrentPage),
                      TargetSpaceOf(CurrentPage, PageConfig(pass.page))))>>
    /\ UNCHANGED <<successes, bulk, searched, edition>>
    /\ delays' = Append(delays, FALSE)
    /\ UNCHANGED <<corrVars, matcherVars, execVars, flowVars>>

\* The page loop of a topic ends: next topic.
FinishTopic ==
    /\ pass.pc = "apply"
    /\ pass.pageIdx > Len(pass.pages)
    /\ pass' = [pass EXCEPT !.pc = "topic", !.topicIdx = @ + 1]
    /\ UNCHANGED <<wikis, indexPages, shortcuts, searchCache, remoteChildren,
                   prev, runs>>
    /\ stats' = NoStats
    /\ calls' = <<>>
    /\ UNCHANGED <<successes, bulk, searched, edition, delays>>
    /\ UNCHANGED <<corrVars, matcherVars, execVars, flowVars>>

\* The topic loop ends: updateIndexPage resolves.
FinishUpdate ==
    /\ pass.pc = "topic"
    /\ pass.topicIdx > Len(PageConfig(pass.page).topics)
    /\ pass' = [pass EXCEPT !.pc = "done"]
    /\ prev' = [prev EXCEPT ![pass.page] =
                   [done |-> TRUE,
                    clean |-> \A i \in 1..Len(pass.attempts) : pass.attempts[i].ok,
                    candidates |-> UNION {Range(pass.topicPages[i]) :
                                              i \in 1..Len(pass.topicPages)},
                    created |-> {pass.attempts[i].target : i \in 1..Len(pass.attempts)}]]
    /\ UNCHANGED <<wikis, indexPages, shortcuts, searchCache, remoteChildren,
                   runs>>
    /\ stats' = NoStats
    /\ calls' = <<>>
    /\ UNCHANGED <<successes, bulk, searched, edition, delays>>
    /\ UNCHANGED <<corrVars, matcherVars, execVars, flowVars>>

\* getStatistics(): computes its result from the fields, writes none.
GetStatistics ==
    /\ DirectCall
    /\ stats' = Statistics
    /\ calls' = <<>>
    /\ UNCHANGED <<wikis, indexPages, shortcuts, searchCache, remoteChildren,
                   pass, prev, runs, successes, bulk, searched, edition, delays>>
    /\ UNCHANGED <<corrVars, matcherVars, execVars, flowVars>>

\* The targetSpaceId the caller of addToMultipleIndexes passes.
AttachSpace == W1

\* The child a successful createShortcut leaves under the index node, or
\* none when the call failed.
ChildrenAdded(target, result) ==
    IF result = "failed" THEN {}
    ELSE {[node_type |-> AgentCreateNode(
                             CreateShortcutParams("P", target, AttachSpace)).node_type,
           origin_node_token |-> IF result = "reflected" THEN target ELSE NoToken]}

\* Mutant of AddToMultipleIndexes: the first failed creation ends the loop.
AddToMultipleIndexesAborting(target, indexNodeTokens, results) ==
    LET failures == {j \in 1..Len(indexNodeTokens) : results[j] = "failed"}
        last == IF failures = {} THEN Len(indexNodeTokens)
                ELSE CHOOSE j \in failures : \A k \in failures : j <= k
    IN
    /\ DirectCall
    /\ runs < MaxRuns
    /\ runs' = runs + 1
    /\ remoteChildren' =
           [p \in PageTokens |->
               remoteChildren[p] \cup
                   UNION {ChildrenAdded(target, results[i]) :
                            i \in {j \in 1..last : indexNodeTokens[j] = p}}]
    /\ UNCHANGED <<wikis, indexPages, shortcuts, searchCache, pass, prev>>
    /\ stats' = NoStats
    /\ calls' = [i \in 1..last |->
                    CreateNodeCall(CreateShortcutParams(
                        indexNodeTokens[i], target, AttachSpace))]
    /\ UNCHANGED <<successes, bulk, searched, edition>>
    /\ delays' = [i \in 1..last |-> results[i] # "failed"]
    /\ UNCHANGED <<corrVars, matcherVars, execVars, flowVars>>

\* addToMultipleIndexes(target, space, indexNodeTokens): one createShortcut
\* per index token, failures logged; results[i] is how the i-th call went.
\* Nothing is recorded in this.shortcuts.
AddToMultipleIndexes(target, indexNodeTokens, results) ==
    /\ DirectCall
    /\ runs < MaxRuns
    /\ runs' = runs + 1
    /\ remoteChildren' =
           [p \in PageTokens |->
               remoteChildren[p] \cup
                   UNION {ChildrenAdded(target, results[i]) :
                            i \in {j \in 1..Len(indexNodeTokens) :
                                      indexNodeTokens[j] = p}}]
    /\ UNCHANGED <<wikis, indexPages, shortcuts, searchCache, pass, prev>>
    /\ stats' = NoStats
    /\ calls' = [i \in 1..Len(indexNodeTokens) |->
                    CreateNodeCall(CreateShortcutParams(
                        indexNodeTokens[i], target, AttachSpace))]
    /\ UNCHANGED <<successes, bulk, searched, edition>>
    /\ delays' = [i \in 1..Len(indexNodeTokens) |-> results[i] # "failed"]
    /\ UNCHANGED <<corrVars, matcherVars, execVars, flowVars>>

\* Mutant of ClearCache: the recorded shortcuts are dropped with the cache.
ClearCacheAndRecords ==
    /\ DirectCall
    /\ searchCache # <<>>
    /\ searchCache' = <<>>
    /\ shortcuts' = [t \in Tokens |-> <<>>]
    /\ UNCHANGED <<wikis, indexPages, remoteChildren, pass, prev, runs>>
    /\ stats' = NoStats
    /\ calls' = <<>>
    /\ searched' = {}
    /\ UNCHANGED <<successes, bulk, edition, delays>>
    /\ UNCHANGED <<corrVars, matcherVars, execVars, flowVars>>

\* clearCache()
ClearCache ==
    /\ DirectCall
    /\ searchCache # <<>>
    /\ searchCache' = <<>>
    /\ UNCHANGED <<wikis, indexPages, shortcuts, remoteChildren, pass, prev, runs>>
    /\ stats' = NoStats
    /\ calls' = <<>>
    /\ searched' = {}
    /\ UNCHANGED <<successes, bulk, edition, delays>>
    /\ UNCHANGED <<corrVars, matcherVars, execVars, flowVars>>

\* updateAllIndexPages() is called: its loop starts at the first entry of
\* this.indexPages.  The bound on runs leaves room for every page it updates.
UpdateAllIndexPages ==
    /\ DirectCall
    /\ runs + Cardinality({i \in 1..Len(indexPages) : ~Skipped(indexPages[i])})
           <= MaxRuns
    /\ bulk' = [active |-> TRUE, idx |-> 1]
    /\ UNCHANGED <<wikis, indexPages, shortcuts, searchCache, remoteChildren,
                   pass, prev, runs>>
    /\ stats' = NoStats
    /\ calls' = <<>>
    /\ UNCHANGED <<successes, searched, edition, delays>>
    /\ UNCHANGED <<corrVars, matcherVars, execVars, flowVars>>

\* updateAllIndexPages: the page the loop is at has autoUpdate = false.
UpdateAllSkip ==
    /\ bulk.active
    /\ NotRunning
    /\ bulk.idx <= Len(indexPages)
    /\ Skipped(indexPages[bulk.idx])
    /\ bulk' = [bulk EXCEPT !.idx = @ + 1]
    /\ UNCHANGED <<wikis, indexPages, shortcuts, searchCache, remoteChildren,
                   pass, prev, runs>>
    /\ stats' = NoStats
    /\ calls' = <<>>
    /\ UNCHANGED <<successes, searched, edition, delays>>
    /\ UNCHANGED <<corrVars, matcherVars, execVars, flowVars>>

\* updateAllIndexPages: the loop is over and the call resolves.
UpdateAllReturn ==
    /\ bulk.active
    /\ NotRunning
    /\ bulk.idx > Len(indexPages)
    /\ bulk' = NoBulk
    /\ UNCHANGED <<wikis, indexPages, shortcuts, searchCache, remoteChildren,
                   pass, prev, runs>>
    /\ stats' = NoStats
    /\ calls' = <<>>
    /\ UNCHANGED <<successes, searched, edition, delays>>
    /\ UNCHANGED <<corrVars, matcherVars, execVars, flowVars>>

\* The remote search index moves to the next edition of its content, between
\* two operations of the manager.
RemoteChange ==
    /\ DirectCall
    /\ edition + 1 \in Editions
    /\ edition' = edition + 1
    /\ UNCHANGED <<wikis, indexPages, shortcuts, searchCache, remoteChildren,
                   pass, prev, runs, stats, successes, bulk, calls, searched,
                   delays>>
    /\ UNCHANGED <<corrVars, matcherVars, execVars, flowVars>>

\* Arguments of addToMultipleIndexes, and how each of its calls may go.
AttachTargets == {"B"}
AttachLists == {<<"P1">>, <<"P2", "P1">>}
AttachResults(indexNodeTokens) ==
    [1..Len(indexNodeTokens) -> {"failed", "reflected", "unreflected"}]

\* The manager after construction, its agent not started; the index pages
\* of the remote service may already hold children.
InitMgr ==
    /\ mcpProcess = NoProc
    /\ procRunning = FALSE
    /\ requestId = 1
    /\ pendingRequests = {}
    /\ initialized = FALSE
    /\ outcome = [id \in RequestIds |-> NoPromise]
    /\ issued = <<>>
    /\ written = {}
    /\ initCalls = {}
    /\ listening = FALSE
    /\ spawnedSinceClose = 0
    /\ lastEvent = [settled |-> FALSE, discarded |-> {}]
    /\ uncaught = FALSE
    /\ stdoutPipe = [partial |-> NoLine, delivered |-> {}]
    /\ variant = "LarkWikiMCPAgent"
    /\ matcher = NoCall
    /\ wikis = <<>>
    /\ indexPages = <<>>
    /\ shortcuts = [t \in Tokens |-> <<>>]
    /\ searchCache = <<>>
    /\ \E initial \in {{}, {ShortcutChild("A"), OrdinaryChild("B")}} :
           remoteChildren = [p \in PageTokens |-> IF p = "P1" THEN initial ELSE {}]
    /\ pass = IdlePass
    /\ prev = [p \in PageTokens |-> NoPrev]
    /\ runs = 0
    /\ stats = NoStats
    /\ successes = 0
    /\ bulk = NoBulk
    /\ calls = <<>>
    /\ searched = {}
    /\ edition = 1
    /\ delays = <<>>
    /\ cmdCall = IdleCall
    /\ flows = [f \in 1..MaxFlows |-> IdleFlow]
    /\ invoked = <<>>
    /\ rollbacks = <<>>

NextMgr ==
    \/ \E w \in WikiIds, enabled \in BOOLEAN : RegisterWiki(w, enabled)
    \/ \E token \in PageTokens : RegisterIndexPage(token)
    \/ \E token \in PageTokens : UpdateIndexPageUnknown(token)
    \/ \E token \in PageTokens : UpdateIndexPageListed(token)
    \/ \E token \in PageTokens : UpdateIndexPageListFailed(token)
    \/ BeginTopic
    \/ NextWiki
    \/ SearchCached
    \/ SearchRemote
    \/ SearchRemoteFailed
    \/ FinishCollect
    \/ SkipExisting
    \/ \E origin \in Tokens \cup {NoToken} : CreateShortcutOk(origin)
    \/ CreateShortcutFailed
    \/ FinishTopic
    \/ FinishUpdate
    \/ ClearCache
    \/ GetStatistics
    \/ \E target \in AttachTargets, indexNodeTokens \in AttachLists :
           \E results \in AttachResults(indexNodeTokens) :
               AddToMultipleIndexes(target, indexNodeTokens, results)
    \/ UpdateAllIndexPages
    \/ UpdateAllSkip
    \/ UpdateAllReturn

SpecMgr == InitMgr /\ [][NextMgr]_vars

\* The manager's update passes while the remote search index changes.
NextCache ==
    \/ \E w \in WikiIds, enabled \in BOOLEAN : RegisterWiki(w, enabled)
    \/ \E token \in PageTokens : RegisterIndexPage(token)
    \/ \E token \in PageTokens : UpdateIndexPageListed(token)
    \/ \E token \in PageTokens : UpdateIndexPageListFailed(token)
    \/ BeginTopic
    \/ NextWiki
    \/ SearchCached
    \/ SearchRemote
    \/ SearchRemoteFailed
    \/ FinishCollect
    \/ SkipExisting
    \/ \E origin \in Tokens \cup {NoToken} : CreateShortcutOk(origin)
    \/ CreateShortcutFailed
    \/ FinishTopic
    \/ FinishUpdate
    \/ ClearCache
    \/ RemoteChange

SpecCache == InitMgr /\ [][NextCache]_vars

\* ------------------------------------------ WikiIndexManager: searchWiki
\* Space ids and keywords that contain the separator of the cache key.
Dashed ==
    [spaces |-> {<<"a">>, <<"a", "-", "b">>},
     keywords |-> {<<"c">>, <<"b", "-", "c">>}]
\* results.items || [] of a SEARCH_WIKI call that resolved.
SearchReplies == {<<>>, <<ItemA>>, <<ItemB>>}

\* searchWiki(spaceId, keyword): answered from the cache when the key is
\* there; otherwise SEARCH_WIKI is called, and its items are cached under
\* the key and returned.
SearchWiki(spaceId, keyword, items) ==
    LET key == CacheKey(spaceId, keyword) IN
    /\ DirectCall
    /\ IF key \in DOMAIN searchCache
       THEN /\ searched' = searched \cup {Found(spaceId, keyword, searchCache[key])}
            /\ calls' = <<>>
            /\ UNCHANGED searchCache
       ELSE /\ searchCache' = (key :> items) @@ searchCache
            /\ searched' = searched \cup {Found(spaceId, keyword, items)}
            /\ calls' = <<SearchWikiCall(spaceId, keyword)>>
    /\ UNCHANGED <<wikis, indexPages, shortcuts, remoteChildren, pass, prev, runs>>
    /\ stats' = NoStats
    /\ UNCHANGED <<successes, bulk, edition, delays>>
    /\ UNCHANGED <<corrVars, matcherVars, execVars, flowVars>>

\* searchWiki(spaceId, keyword) whose SEARCH_WIKI call rejected: the
\* rejection propagates and nothing is cached.
SearchWikiRejected(spaceId, keyword) ==
    /\ DirectCall
    /\ CacheKey(spaceId, keyword) \notin DOMAIN searchCache
    /\ calls' = <<SearchWikiCall(spaceId, keyword)>>
    /\ UNCHANGED <<wikis, indexPages, shortcuts, searchCache, remoteChildren,
                   pass, prev, runs>>
    /\ stats' = NoStats
    /\ UNCHANGED <<successes, bulk, searched, edition, delays>>
    /\ UNCHANGED <<corrVars, matcherVars, execVars, flowVars>>

NextSearch ==
    \/ \E spaceId \in Dashed.spaces, keyword \in Dashed.keywords,
          items \in SearchReplies : SearchWiki(spaceId, keyword, items)
    \/ \E spaceId \in Dashed.spaces, keyword \in Dashed.keywords :
           SearchWikiRejected(spaceId, keyword)
    \/ ClearCache

SpecSearch == InitMgr /\ [][NextSearch]_vars

\* ------------------------------- WikiIndexManager: overlapping updates
\* The IndexPage registered under P1 when updateIndexPage calls overlap.
OverlapPage ==
    [nodeToken |-> "P1", spaceId |-> W1, topics |-> <<T3>>, autoUpdate |-> TRUE]

\* The searchWiki calls of collectTopicPages(topic), in the order its two
\* loops make them: wikis with searchEnabled in registration order, and for
\* each the topic's keywords in declaration order.
SearchPlan(topic) ==
    LET Enabled(wiki) == wiki.searchEnabled
        enabled == SelectSeq(wikis, Enabled)
        n == Len(topic.keywords)
    IN [i \in 1..(Len(enabled) * n) |->
           [spaceId |-> enabled[((i - 1) \div n) + 1].spaceId,
            keyword |-> topic.keywords[((i - 1) % n) + 1]]]

\* The remote call flow fl makes next.
Issue(fl, pc, call) ==
    [fl EXCEPT !.pc = pc, !.outstanding = @ \cup {call},
               !.issued = Append(@, call)]

\* Mutant of Resume: the searches of a topic are started together, none
\* awaited before the next is issued.
RECURSIVE ResumeAllAtOnce(_, _)
ResumeAllAtOnce(fl, cache) ==
    CASE fl.pc = "topic" ->
             IF fl.topicIdx > Len(fl.config.topics)
             THEN [fl EXCEPT !.pc = "done"]
             ELSE ResumeAllAtOnce([fl EXCEPT !.pc = "search", !.searchIdx = 1,
                                             !.allPages = <<>>], cache)
      [] fl.pc = "search" ->
             LET plan == SearchPlan(fl.config.topics[fl.topicIdx]) IN
             IF fl.searchIdx > Len(plan)
             THEN ResumeAllAtOnce([fl EXCEPT !.pc = "apply", !.pageIdx = 1,
                                     !.pages = RemoveDuplicates(fl.allPages)],
                                  cache)
             ELSE LET next == plan[fl.searchIdx] IN
                  IF CacheKey(next.spaceId, next.keyword) \in DOMAIN cache
                  THEN [fl EXCEPT !.pc = "cached"]
                  ELSE IF fl.searchIdx < Len(plan)
                  THEN ResumeAllAtOnce(
                           [Issue(fl, "search",
                                  SearchWikiCall(next.spaceId, next.keyword))
                               EXCEPT !.searchIdx = @ + 1], cache)
                  ELSE Issue(fl, "searching",
                             SearchWikiCall(next.spaceId, next.keyword))
      [] fl.pc = "apply" ->
             IF fl.pageIdx > Len(fl.pages)
             THEN ResumeAllAtOnce([fl EXCEPT !.pc = "topic", !.topicIdx = @ + 1],
                                  cache)
             ELSE LET page == fl.pages[fl.pageIdx] IN
                  IF KeyOf(page) \in fl.existing
                  THEN ResumeAllAtOnce([fl EXCEPT !.pageIdx = @ + 1], cache)
                  ELSE Issue(fl, "creating",
                             CreateNodeCall(CreateShortcutParams(
                                 fl.config.nodeToken, KeyOf(page),
                                 TargetSpaceOf(page, fl.config))))
      [] OTHER -> fl

\* updateIndexPage from one await to the next: the statements that run
\* between the settling of one awaited call and the next await.  At "topic"
\* the topic loop is at its head, at "search" collectTopicPages is about to
\* call searchWiki, at "apply" the page loop is at its head.  The flow stops
\* at the await of a remote call it issues ("searching", "creating"), at the
\* await of a search answered from the cache ("cached"), or at its end.
RECURSIVE Resume(_, _)
Resume(fl, cache) ==
    CASE fl.pc = "topic" ->
             IF fl.topicIdx > Len(fl.config.topics)
             THEN [fl EXCEPT !.pc = "done"]
             ELSE Resume([fl EXCEPT !.pc = "search", !.searchIdx = 1,
                                    !.allPages = <<>>], cache)
      [] fl.pc = "search" ->
             LET plan == SearchPlan(fl.config.topics[fl.topicIdx]) IN
             IF fl.searchIdx > Len(plan)
             THEN Resume([fl EXCEPT !.pc = "apply", !.pageIdx = 1,
                                    !.pages = RemoveDuplicates(fl.allPages)],
                         cache)
             ELSE LET next == plan[fl.searchIdx] IN
                  IF CacheKey(next.spaceId, next.keyword) \in DOMAIN cache
                  THEN [fl EXCEPT !.pc = "cached"]
                  ELSE Issue(fl, "searching",
                             SearchWikiCall(next.spaceId, next.keyword))
      [] fl.pc = "apply" ->
             IF fl.pageIdx > Len(fl.pages)
             THEN Resume([fl EXCEPT !.pc = "topic", !.topicIdx = @ + 1], cache)
             ELSE LET page == fl.pages[fl.pageIdx] IN
                  IF KeyOf(page) \in fl.existing
                  THEN Resume([fl EXCEPT !.pageIdx = @ + 1], cache)
                  ELSE Issue(fl, "creating",
                             CreateNodeCall(CreateShortcutParams(
                                 fl.config.nodeToken, KeyOf(page),
                                 TargetSpaceOf(page, fl.config))))
      [] OTHER -> fl

\* The manager's fields that no step of an overlapping update writes.
OverlapFrame ==
    /\ UNCHANGED <<wikis, indexPages, pass, prev, runs, stats, successes, bulk,
                   searched, edition, delays>>
    /\ UNCHANGED <<corrVars, matcherVars, execVars>>

\* The calls flow f issued in this step.
IssuedNow(f) ==
    SubSeq(flows'[f].issued, Len(flows[f].issued) + 1, Len(flows'[f].issued))

\* updateIndexPage(P1) is called, the second call while the first is in
\* progress: up to the await of LIST_NODES in getExistingShortcuts.
UpdateIndexPageStarts(f) ==
    /\ flows[f].pc = "idle"
    /\ \A g \in 1..(f - 1) : flows[g].pc \notin {"idle", "done", "rejected"}
    /\ OverlapPage.nodeToken \in Range(indexPages)
    /\ flows' = [flows EXCEPT ![f] =
                    Issue([IdleFlow EXCEPT !.config = OverlapPage], "listing",
                          ListNodesCall(OverlapPage.nodeToken))]
    /\ calls' = IssuedNow(f)
    /\ UNCHANGED <<shortcuts, searchCache, remoteChildren>>
    /\ OverlapFrame

\* LIST_NODES settles: the set of existing targets is built, once, and the
\* topic loop starts; a rejection ends the call.
ListSettles(f, ok) ==
    /\ flows[f].pc = "listing"
    /\ flows' = [flows EXCEPT ![f] =
                    IF ok
                    THEN Resume([flows[f] EXCEPT
                                    !.pc = "topic", !.topicIdx = 1,
                                    !.outstanding = {},
                                    !.existing = ExistingTokens(
                                        remoteChildren[flows[f].config.nodeToken])],
                                searchCache)
                    ELSE [flows[f] EXCEPT !.pc = "rejected", !.outstanding = {}]]
    /\ calls' = IssuedNow(f)
    /\ UNCHANGED <<shortcuts, searchCache, remoteChildren>>
    /\ OverlapFrame

\* SEARCH_WIKI settles: its items are cached and filtered, or its rejection
\* logged, and the keyword loop goes on.
SearchSettles(f, ok) ==
    LET fl == flows[f]
        topic == fl.config.topics[fl.topicIdx]
        next == SearchPlan(topic)[fl.searchIdx]
        request == AgentSearchRequest([space_id |-> next.spaceId,
                                       query |-> next.keyword])
        items == RemoteSearch(request.space_id, request.query)
        cache == IF ok
                 THEN (CacheKey(next.spaceId, next.keyword) :> items) @@ searchCache
                 ELSE searchCache
    IN
    /\ fl.pc = "searching"
    /\ searchCache' = cache
    /\ flows' = [flows EXCEPT ![f] =
                    Resume([fl EXCEPT
                               !.pc = "search", !.searchIdx = @ + 1,
                               !.outstanding = {},
                               !.allPages = IF ok
                                            THEN @ \o FilterResults(items, topic)
                                            ELSE @],
                           cache)]
    /\ calls' = IssuedNow(f)
    /\ UNCHANGED <<shortcuts, remoteChildren>>
    /\ OverlapFrame

\* The await of a searchWiki call answered from the cache is over.
CachedReturns(f) ==
    LET fl == flows[f]
        topic == fl.config.topics[fl.topicIdx]
        next == SearchPlan(topic)[fl.searchIdx]
        items == searchCache[CacheKey(next.spaceId, next.keyword)]
    IN
    /\ fl.pc = "cached"
    /\ flows' = [flows EXCEPT ![f] =
                    Resume([fl EXCEPT
                               !.pc = "search", !.searchIdx = @ + 1,
                               !.allPages = @ \o FilterResults(items, topic)],
                           searchCache)]
    /\ calls' = IssuedNow(f)
    /\ UNCHANGED <<shortcuts, searchCache, remoteChildren>>
    /\ OverlapFrame

\* CREATE_NODE settles.  Resolved: the remote service has added the child,
\* the ShortcutInfo is recorded and delay(500) is awaited.  Rejected: the
\* catch block logs and the page loop goes on.
CreateSettles(f, ok, origin) ==
    LET fl == flows[f]
        page == fl.pages[fl.pageIdx]
        target == KeyOf(page)
        space == TargetSpaceOf(page, fl.config)
        request == AgentCreateNode(
                       CreateShortcutParams(fl.config.nodeToken, target, space))
        info == [targetNodeToken |-> target, targetSpaceId |-> space,
                 indexNodeToken |-> fl.config.nodeToken,
                 topicId |-> fl.config.topics[fl.topicIdx].id]
    IN
    /\ fl.pc = "creating"
    /\ origin \in {target, NoToken}
    /\ IF ok
       THEN /\ remoteChildren' =
                   [remoteChildren EXCEPT ![request.parent_node_token] =
                        @ \cup {[node_type |-> request.node_type,
                                 origin_node_token |-> origin]}]
            /\ shortcuts' = [shortcuts EXCEPT ![target] = Append(@, info)]
            /\ flows' = [flows EXCEPT ![f] =
                            [fl EXCEPT !.pc = "delay", !.outstanding = {}]]
       ELSE /\ origin = NoToken
            /\ UNCHANGED <<remoteChildren, shortcuts>>
            /\ flows' = [flows EXCEPT ![f] =
                            Resume([fl EXCEPT !.pc = "apply", !.pageIdx = @ + 1,
                                              !.outstanding = {}],
                                   searchCache)]
    /\ calls' = IssuedNow(f)
    /\ UNCHANGED searchCache
    /\ OverlapFrame

\* delay(500) is over: the page loop goes on.
DelayElapses(f) ==
    /\ flows[f].pc = "delay"
    /\ flows' = [flows EXCEPT ![f] =
                    Resume([flows[f] EXCEPT !.pc = "apply", !.pageIdx = @ + 1],
                           searchCache)]
    /\ calls' = IssuedNow(f)
    /\ UNCHANGED <<shortcuts, searchCache, remoteChildren>>
    /\ OverlapFrame

\* A manager with two wikis, one of them searched, and P1 registered; the
\* index page holds no child or one link already.
InitOverlap ==
    /\ mcpProcess = NoProc
    /\ procRunning = FALSE
    /\ requestId = 1
    /\ pendingRequests = {}
    /\ initialized = FALSE
    /\ outcome = [id \in RequestIds |-> NoPromise]
    /\ issued = <<>>
    /\ written = {}
    /\ initCalls = {}
    /\ listening = FALSE
    /\ spawnedSinceClose = 0
    /\ lastEvent = [settled |-> FALSE, discarded |-> {}]
    /\ uncaught = FALSE
    /\ stdoutPipe = [partial |-> NoLine, delivered |-> {}]
    /\ variant = "LarkWikiMCPAgent"
    /\ matcher = NoCall
    /\ wikis = <<[spaceId |-> W2, searchEnabled |-> FALSE],
                 [spaceId |-> W1, searchEnabled |-> TRUE]>>
    /\ indexPages = <<OverlapPage.nodeToken>>
    /\ shortcuts = [t \in Tokens |-> <<>>]
    /\ searchCache = <<>>
    /\ \E initial \in {{}, {ShortcutChild("A")}} :
           remoteChildren = [p \in PageTokens |->
                                IF p = OverlapPage.nodeToken THEN initial ELSE {}]
    /\ pass = IdlePass
    /\ prev = [p \in PageTokens |-> NoPrev]
    /\ runs = 0
    /\ stats = NoStats
    /\ successes = 0
    /\ bulk = NoBulk
    /\ calls = <<>>
    /\ searched = {}
    /\ edition = 1
    /\ delays = <<>>
    /\ cmdCall = IdleCall
    /\ flows = [f \in 1..MaxFlows |-> IdleFlow]
    /\ invoked = <<>>
    /\ rollbacks = <<>>

NextOverlap ==
    \/ \E f \in 1..MaxFlows : UpdateIndexPageStarts(f)
    \/ \E f \in 1..MaxFlows, ok \in BOOLEAN : ListSettles(f, ok)
    \/ \E f \in 1..MaxFlows, ok \in BOOLEAN : SearchSettles(f, ok)
    \/ \E f \in 1..MaxFlows : CachedReturns(f)
    \/ \E f \in 1..MaxFlows, ok \in BOOLEAN, origin \in Tokens \cup {NoToken} :
           CreateSettles(f, ok, origin)
    \/ \E f \in 1..MaxFlows : DelayElapses(f)

SpecOverlap == InitOverlap /\ [][NextOverlap]_vars

\* ------------------------------------------- WikiIndexManager: pure steps
\* Each behaviour applies one of the two pure steps to one input.
\* filterResults(results, topic) called on its own.
FilterResultsCall(results, topic) ==
    /\ matcher.op = "none"
    /\ matcher' = [op |-> "filterResults", topic |-> topic, input |-> results,
                   output |-> FilterResults(results, topic)]
    /\ UNCHANGED <<corrVars, mgrVars, execVars, flowVars>>

\* removeDuplicates(pages) called on its own.
RemoveDuplicatesCall(pages) ==
    /\ matcher.op = "none"
    /\ matcher' = [op |-> "removeDuplicates", topic |-> T1, input |-> pages,
                   output |-> RemoveDuplicates(pages)]
    /\ UNCHANGED <<corrVars, mgrVars, execVars, flowVars>>

InitMatcher == InitCorr

NextMatcher ==
    \/ \E results \in SeqsUpTo(FilterHits, MaxHits), topic \in Topics :
           FilterResultsCall(results, topic)
    \/ \E pages \in SeqsUpTo(DedupHits, MaxHits) : RemoveDuplicatesCall(pages)

SpecMatcher == InitMatcher /\ [][NextMatcher]_vars

\* ------------------------------------------------ command dispatch: actions
\* The chain policy of runChain's catch block: LarkWikiAgent rolls back and
\* rethrows, LarkWikiMCPAgent records the failure and goes on.
RollsBackNever(v) == FALSE
RollsBackAlways(v) == TRUE
RollsBackOnFailure(v) == v = "LarkWikiAgent"

\* The command strings the agent's user passes to execute.
Cmd ==
    [RunAll |-> <<"R", "U", "N", " ", "A", "L", "L">>,
     RunC1C2C3 |->
         <<"R", "u", "n", " ", "C", "1", " ", "C", "2", " ", "C", "3">>,
     RunC2C1 |-> <<"R", "u", "n", " ", "C", "2", " ", "C", "1">>,
     RunC7C1 |-> <<"R", "u", "n", " ", "C", "7", " ", "C", "1">>,
     RunC1 |-> <<"R", "u", "n", " ", "C", "1">>,
     C1Initialize |->
         <<"C", "1", ".", "I", "N", "I", "T", "I", "A", "L", "I", "Z", "E">>,
     C2DeleteNode |->
         <<"C", "2", ".", "D", "E", "L", "E", "T", "E", "_", "N", "O", "D", "E">>,
     C2ListNodes |->
         <<"C", "2", ".", "L", "I", "S", "T", "_", "N", "O", "D", "E", "S">>,
     C3 |-> <<"C", "3">>,
     C7Initialize |->
         <<"C", "7", ".", "I", "N", "I", "T", "I", "A", "L", "I", "Z", "E">>,
     RUN_ALL |-> <<"R", "U", "N", "_", "A", "L", "L">>,
     RUN_CHAIN |-> <<"R", "U", "N", "_", "C", "H", "A", "I", "N">>,
     LowerRunAll |-> <<"r", "u", "n", " ", "a", "l", "l">>,
     Status |-> <<"S", "T", "A", "T", "U", "S">>]

\* The catch block and the loop's next iteration of runChain, after the
\* execute of the current step settled with the given failure (NoFailure:
\* it resolved).
StepSettles(failure) ==
    LET cmd == cmdCall.commands[cmdCall.idx]
        entry == [command |-> cmd, success |-> failure = NoFailure,
                  error |-> [text |-> failure.text, args |-> failure.args]]
        results == Append(cmdCall.results, entry)
    IN
    IF failure # NoFailure /\ RollsBackOnFailure(variant)
    THEN /\ cmdCall' = [cmdCall EXCEPT !.st = "rejected", !.results = results,
                                 !.error = failure]
         /\ rollbacks' = Append(rollbacks, results)
    ELSE /\ cmdCall' = [cmdCall EXCEPT !.st = "chain", !.results = results,
                                 !.idx = @ + 1]
         /\ UNCHANGED rollbacks

\* execute(command, params) called by the agent's user, up to its first
\* await on a group handler or on a chain step.
Execute(command, params) ==
    LET d == Dispatch(variant, command, params)
        c == [IdleCall EXCEPT !.command = command, !.params = params]
    IN
    /\ cmdCall.st \in {"idle", "resolved", "rejected"}
    /\ rollbacks' = <<>>
    /\ IF d.kind = "reject"
       THEN /\ cmdCall' = [c EXCEPT !.st = "rejected", !.error = d.error]
            /\ invoked' = <<>>
       ELSE IF d.kind = "chain"
       THEN /\ cmdCall' = [c EXCEPT !.st = "chain", !.commands = d.commands,
                                 !.idx = 1]
            /\ invoked' = <<>>
       ELSE /\ cmdCall' = [c EXCEPT !.st = "handler"]
            /\ invoked' = <<[group |-> d.group, operation |-> d.operation,
                              params |-> params, st |-> "running",
                              step |-> 0]>>
    /\ UNCHANGED variant
    /\ UNCHANGED <<corrVars, mgrVars, matcherVars, flowVars>>

\* One iteration of runChain's loop: this.execute(cmd), with no params,
\* up to its first await on a group handler.  The commands of a chain are
\* group names, so the nested execute never starts a chain of its own.
ChainStep ==
    LET d == Dispatch(variant, cmdCall.commands[cmdCall.idx], NoParams) IN
    /\ cmdCall.st = "chain"
    /\ cmdCall.idx <= Len(cmdCall.commands)
    /\ d.kind # "chain"
    /\ IF d.kind = "invoke"
       THEN /\ invoked' = Append(invoked,
                                 [group |-> d.group, operation |-> d.operation,
                                  params |-> NoParams, st |-> "running",
                                  step |-> cmdCall.idx])
            /\ cmdCall' = [cmdCall EXCEPT !.st = "step"]
            /\ UNCHANGED rollbacks
       ELSE /\ StepSettles(d.error)
            /\ UNCHANGED invoked
    /\ UNCHANGED variant
    /\ UNCHANGED <<corrVars, mgrVars, matcherVars, flowVars>>

\* The group handler in progress (the latest entry of invoked, a call
\* executeCn_...(operation, params) of step 0, the top-level execute, or of
\* a chain step) settles: it rejects with the default
\* case's error when it has no case for the operation, and otherwise it
\* resolves or rejects as its remote calls go.  The execute that awaited it
\* settles the same way.
HandlerSettles(ok) ==
    LET n == Len(invoked)
        known == invoked[n].operation \in KnownOperations(variant, invoked[n].group)
        failure == IF ~known
                   THEN UnknownOperationError(invoked[n].group, invoked[n].operation)
                   ELSE IF ok THEN NoFailure ELSE HandlerError
    IN
    /\ cmdCall.st \in {"handler", "step"}
    /\ ok => known
    /\ invoked' = [invoked EXCEPT ![n].st = IF failure = NoFailure
                                            THEN "resolved" ELSE "rejected"]
    /\ IF cmdCall.st = "handler"
       THEN /\ cmdCall' = [cmdCall EXCEPT !.st = IF failure = NoFailure
                                           THEN "resolved" ELSE "rejected",
                                    !.error = failure]
            /\ UNCHANGED rollbacks
       ELSE StepSettles(failure)
    /\ UNCHANGED variant
    /\ UNCHANGED <<corrVars, mgrVars, matcherVars, flowVars>>

\* runChain's loop is over: return results.
ChainReturn ==
    /\ cmdCall.st = "chain"
    /\ cmdCall.idx > Len(cmdCall.commands)
    /\ cmdCall' = [cmdCall EXCEPT !.st = "resolved"]
    /\ UNCHANGED <<variant, invoked, rollbacks>>
    /\ UNCHANGED <<corrVars, mgrVars, matcherVars, flowVars>>

\* Either agent class, constructed (LarkWikiMCPAgent also initialized), and
\* no command executed yet.
InitExec ==
    /\ mcpProcess = NoProc
    /\ procRunning = FALSE
    /\ requestId = 1
    /\ pendingRequests = {}
    /\ initialized = FALSE
    /\ outcome = [id \in RequestIds |-> NoPromise]
    /\ issued = <<>>
    /\ written = {}
    /\ initCalls = {}
    /\ listening = FALSE
    /\ spawnedSinceClose = 0
    /\ lastEvent = [settled |-> FALSE, discarded |-> {}]
    /\ uncaught = FALSE
    /\ stdoutPipe = [partial |-> NoLine, delivered |-> {}]
    /\ InitManagerState
    /\ variant \in Variants

NextExec ==
    \/ \E command \in {Cmd[k] : k \in DOMAIN Cmd}, params \in ParamValues :
           Execute(command, params)
    \/ ChainStep
    \/ \E ok \in BOOLEAN : HandlerSettles(ok)
    \/ ChainReturn

SpecExec == InitExec /\ [][NextExec]_vars

\* ======================================================== matcher claims
\* Whether some pattern of a list is found in a text.
SomePatternMatches(patterns, text) ==
    \E k \in 1..Len(patterns) : patterns[k] \in text

ExcludedBy(topic, hit) ==
    topic.hasExclude /\ SomePatternMatches(topic.excludePatterns, hit.text)

FilterCalled == matcher.op = "filterResults"

\* C12: filterResults rejects every hit whose text matches at least one
\* exclude pattern of the topic, whatever include patterns it also matches.
C12_ExcludeDominates ==
    FilterCalled =>
        \A i \in 1..Len(matcher.input) :
            ExcludedBy(matcher.topic, matcher.input[i]) =>
                matcher.input[i] \notin Range(matcher.output)

\* A hit matching both an include and an exclude pattern was rejected, while
\* another hit of the same call was accepted.
C12_Witness ==
    /\ FilterCalled
    /\ matcher.output # <<>>
    /\ \E i \in 1..Len(matcher.input) :
           /\ ExcludedBy(matcher.topic, matcher.input[i])
           /\ matcher.topic.hasInclude
           /\ SomePatternMatches(matcher.topic.includePatterns, matcher.input[i].text)
           /\ matcher.input[i] \notin Range(matcher.output)

\* C13: when the topic declares include patterns, a hit matching none of
\* them is rejected even though no exclude pattern matches, and a hit
\* matching at least one of them and no exclude pattern is accepted.
C13_IncludeRequired ==
    FilterCalled /\ matcher.topic.hasInclude =>
        \A i \in 1..Len(matcher.input) :
            ~ExcludedBy(matcher.topic, matcher.input[i]) =>
                (matcher.input[i] \in Range(matcher.output)
                    <=> SomePatternMatches(matcher.topic.includePatterns,
                                           matcher.input[i].text))

\* With a non-empty include list and nothing excluded, one hit was rejected
\* for matching no include pattern and another accepted for matching one.
C13_Witness ==
    /\ FilterCalled
    /\ matcher.topic.hasInclude
    /\ matcher.topic.includePatterns # <<>>
    /\ \A i \in 1..Len(matcher.input) : ~ExcludedBy(matcher.topic, matcher.input[i])
    /\ \E i \in 1..Len(matcher.input) : matcher.input[i] \notin Range(matcher.output)
    /\ \E i \in 1..Len(matcher.input) : matcher.input[i] \in Range(matcher.output)

\* C14: a hit that matches no exclude pattern is accepted whenever the topic
\* has no include patterns, includePatterns being absent or an empty list.
C14_NoIncludeAccepts ==
    FilterCalled
    /\ (~matcher.topic.hasInclude \/ matcher.topic.includePatterns = <<>>) =>
        \A i \in 1..Len(matcher.input) :
            ~ExcludedBy(matcher.topic, matcher.input[i]) =>
                matcher.input[i] \in Range(matcher.output)

\* The first position of an identity in a list of pages.
FirstWith(pages, key) ==
    CHOOSE i \in 1..Len(pages) :
        /\ KeyOf(pages[i]) = key
        /\ \A j \in 1..(i - 1) : KeyOf(pages[j]) # key

\* C15: the deduplicated list holds no two items with the same canonical
\* identity; for each identity of the crawl it holds the first occurrence
\* in crawl order, unchanged, and it keeps the order of first occurrences.
C15_FirstOccurrenceWins ==
    matcher.op = "removeDuplicates" =>
        LET in == matcher.input
            out == matcher.output
            keys == {KeyOf(in[i]) : i \in 1..Len(in)} \ {NoToken}
        IN
        /\ \A i, j \in 1..Len(out) : KeyOf(out[i]) = KeyOf(out[j]) => i = j
        /\ {KeyOf(out[i]) : i \in 1..Len(out)} = keys
        /\ \A i \in 1..Len(out) : out[i] = in[FirstWith(in, KeyOf(out[i]))]
        /\ \A i, j \in 1..Len(out) :
               i < j => FirstWith(in, KeyOf(out[i])) < FirstWith(in, KeyOf(out[j]))

\* Two pages of one identity and different content came in; the first one
\* came out and the second did not.
C15_Witness ==
    /\ matcher.op = "removeDuplicates"
    /\ Len(matcher.input) >= 2
    /\ KeyOf(matcher.input[1]) = KeyOf(matcher.input[2])
    /\ KeyOf(matcher.input[1]) # NoToken
    /\ matcher.input[1] # matcher.input[2]
    /\ matcher.output = <<matcher.input[1]>>

\* ======================================================== manager claims
\* The reference-typed children of a LIST_NODES response, by their origin.
ReferenceChildren(listing) ==
    {c.origin_node_token : c \in {n \in listing : n.node_type = "shortcut"}}

\* The targets of the creation attempts of topic i, in the order made.
RECURSIVE AttemptsOf(_, _)
AttemptsOf(attempts, i) ==
    IF attempts = <<>> THEN <<>>
    ELSE IF Head(attempts).topic = i
         THEN <<Head(attempts).target>> \o AttemptsOf(Tail(attempts), i)
         ELSE AttemptsOf(Tail(attempts), i)

\* The members of a sequence of identities that are not linked yet.
RECURSIVE NotLinked(_, _)
NotLinked(keys, linked) ==
    IF keys = <<>> THEN <<>>
    ELSE IF Head(keys) \in linked
         THEN NotLinked(Tail(keys), linked)
         ELSE <<Head(keys)>> \o NotLinked(Tail(keys), linked)

SuccessfulAttempts(t) ==
    {k \in 1..Len(pass.attempts) :
        pass.attempts[k].target = t /\ pass.attempts[k].ok}

PassRunning == pass.pc \in {"topic", "search", "apply"}

\* C3: within one updateIndexPage pass no two reference links are created,
\* and no two ShortcutRecords appended, for the same (index document, target
\* identity) pair, also when the item is a candidate of several topics.
C3_NoDuplicatePairInPass ==
    \A t \in Tokens :
        /\ Cardinality(SuccessfulAttempts(t)) <= 1
        /\ Len(shortcuts[t]) - Len(pass.shortcutsAtStart[t]) <= 1

\* The premise of C4 for the pass in progress: the previous run on this index
\* page completed with every creation successful, the remote child listing
\* shows each of them as a reference to its target, and the sources yield no
\* candidate the previous run had not seen.
C4_Premise ==
    /\ PassRunning
    /\ prev[pass.page].done
    /\ prev[pass.page].clean
    /\ \A t \in prev[pass.page].created : ShortcutChild(t) \in pass.listed
    /\ \A i \in 1..Len(pass.topicPages) :
           Range(pass.topicPages[i]) \subseteq prev[pass.page].candidates

\* C4: a second updateIndexPage run for the same index page against an
\* unchanged source set, after a first run whose creations all succeeded and
\* are reflected by the remote child listing, issues no create call, appends
\* no ShortcutRecord and leaves totalShortcuts unchanged.
C4_SecondRunIdempotent ==
    C4_Premise =>
        /\ pass.attempts = <<>>
        /\ shortcuts = pass.shortcutsAtStart
        /\ TotalShortcuts(shortcuts) = TotalShortcuts(pass.shortcutsAtStart)

\* The second run has gone through all its topics, the first having created
\* links, and has attempted nothing.
C4_Witness ==
    /\ C4_Premise
    /\ pass.pc = "topic"
    /\ pass.topicIdx > Len(PageConfig(pass.page).topics)
    /\ prev[pass.page].created # {}
    /\ \E i \in 1..Len(pass.topicPages) : pass.topicPages[i] # <<>>
    /\ pass.attempts = <<>>

\* C5: for each topic, create calls are issued exactly for the deduplicated
\* candidates whose identity is not among the reference-typed children
\* listed at the start of the pass, in order; a candidate already linked is
\* never re-created, and totalShortcuts grows by the successful creations.
C5_DiffAgainstExisting ==
    pass.pc \in {"topic", "search", "apply", "done"} =>
        LET linked == ReferenceChildren(pass.listed) IN
        /\ \A i \in 1..Len(pass.topicPages) :
               AttemptsOf(pass.attempts, i) =
                   NotLinked(IF pass.pc = "apply" /\ i = pass.topicIdx
                             THEN SubSeq(pass.topicPages[i], 1, pass.pageIdx - 1)
                             ELSE pass.topicPages[i],
                             linked)
        /\ \A k \in 1..Len(pass.attempts) : pass.attempts[k].target \notin linked
        /\ TotalShortcuts(shortcuts) - TotalShortcuts(pass.shortcutsAtStart) =
               Cardinality({k \in 1..Len(pass.attempts) : pass.attempts[k].ok})

\* Index page linked to A, candidates [A, B]: only B is created and
\* totalShortcuts grows by exactly 1.
C5_Witness ==
    /\ pass.pc = "done"
    /\ "A" \in ReferenceChildren(pass.listed)
    /\ pass.topicPages[1] = <<"A", "B">>
    /\ pass.attempts = <<[topic |-> 1, target |-> "B", ok |-> TRUE]>>
    /\ TotalShortcuts(shortcuts) = TotalShortcuts(pass.shortcutsAtStart) + 1

\* C6: a failed create call does not reject updateIndexPage; every other
\* not-yet-linked candidate of the same and of all later topics still gets
\* its attempt, and the failed candidate gets no ShortcutRecord.
C6_ItemFailureIsolated ==
    (\E k \in 1..Len(pass.attempts) : ~pass.attempts[k].ok) =>
        /\ pass.pc # "rejected"
        /\ pass.pc = "done" =>
               /\ Len(pass.topicPages) = Len(PageConfig(pass.page).topics)
               /\ \A i \in 1..Len(pass.topicPages) :
                      \A t \in Range(pass.topicPages[i]) \ ReferenceChildren(pass.listed) :
                          \E k \in 1..Len(pass.attempts) :
                              /\ pass.attempts[k].topic = i
                              /\ pass.attempts[k].target = t
        /\ \A t \in Tokens :
               Len(shortcuts[t]) - Len(pass.shortcutsAtStart[t]) =
                   Cardinality(SuccessfulAttempts(t))

\* A pass has completed in which the first creation failed, a later
\* candidate of the same topic was created, a later topic got its attempt
\* too, and the candidate whose creations failed has no record.
C6_Witness ==
    /\ pass.pc = "done"
    /\ Len(pass.attempts) >= 3
    /\ ~pass.attempts[1].ok
    /\ pass.attempts[2].ok
    /\ pass.attempts[2].topic = pass.attempts[1].topic
    /\ pass.attempts[2].target # pass.attempts[1].target
    /\ \E k \in 3..Len(pass.attempts) :
           pass.attempts[k].topic > pass.attempts[1].topic
    /\ SuccessfulAttempts(pass.attempts[1].target) = {}
    /\ shortcuts[pass.attempts[1].target] = pass.shortcutsAtStart[pass.attempts[1].target]

\* C16: a transport failure of a remote call made while updating an index
\* page, whether listing the page's children or searching a topic keyword,
\* makes updateIndexPage reject: the update is aborted, not completed.
C16_TransportFailureRejects ==
    [][(\/ \E token \in PageTokens : UpdateIndexPageListFailed(token)
        \/ SearchRemoteFailed)
       => pass'.pc = "rejected"]_vars

\* C17: updateIndexPage on a token that is not in the index-page registry
\* rejects with an error naming the token, issues no remote call, and leaves
\* the registries, the cache and the ShortcutRecords unchanged.
C17_UnknownPageRejected ==
    [][\A token \in PageTokens :
           UpdateIndexPageUnknown(token) =>
               /\ pass'.pc = "rejected"
               /\ token \in Range(pass'.error.message)
               /\ ~pass'.calledRemote
               /\ UNCHANGED <<wikis, indexPages, searchCache, shortcuts,
                              remoteChildren>>]_vars

\* An update of an unregistered page was rejected after an earlier update
\* had recorded shortcuts.
C17_Witness ==
    /\ pass.pc = "rejected"
    /\ pass.page \notin Range(indexPages)
    /\ pass.error = NotFoundError(pass.page)
    /\ TotalShortcuts(shortcuts) > 0
    /\ searchCache # <<>>

IndexDocumentsOf(t) ==
    {shortcuts[t][i].indexNodeToken : i \in 1..Len(shortcuts[t])}

\* C19: duplicatePages holds exactly the targets with ShortcutRecords
\* attached to more than one distinct index document.
C19_DuplicatesAcrossIndexDocuments ==
    stats # NoStats =>
        Range(stats.duplicatePages) =
            {t \in Tokens : Cardinality(IndexDocumentsOf(t)) > 1}

\* C20: duplicatePages holds exactly the targets for which more than one
\* ShortcutRecord has been recorded, across all index documents, each once.
C20_DuplicatesByRecordCount ==
    stats # NoStats =>
        /\ Range(stats.duplicatePages) = {t \in Tokens : Len(shortcuts[t]) > 1}
        /\ \A i, j \in 1..Len(stats.duplicatePages) :
               stats.duplicatePages[i] = stats.duplicatePages[j] => i = j

\* getStatistics reported one target with several records and left out
\* another that has a single record.
C20_Witness ==
    /\ stats # NoStats
    /\ stats.duplicatePages # <<>>
    /\ \E t \in Tokens :
           /\ Len(shortcuts[t]) = 1
           /\ t \notin Range(stats.duplicatePages)
    /\ \E t \in Range(stats.duplicatePages) :
           Cardinality(IndexDocumentsOf(t)) > 1

\* Sum of the values of a function with a finite domain.
RECURSIVE SumOf(_, _)
SumOf(f, keys) ==
    IF keys = {} THEN 0
    ELSE LET k == CHOOSE x \in keys : TRUE
         IN f[k] + SumOf(f, keys \ {k})

\* C21: in every reachable state getStatistics().totalShortcuts equals the
\* number of createShortcut calls made by updateIndexPage that have resolved
\* since the manager was created, and the counts of shortcutsByTopic sum to
\* totalShortcuts.
C21_TotalCountsSuccessfulCreations ==
    /\ Statistics.totalShortcuts = successes
    /\ SumOf(Statistics.shortcutsByTopic, DOMAIN Statistics.shortcutsByTopic)
           = Statistics.totalShortcuts

\* getStatistics has just returned two or more shortcuts spread over two
\* topics, after a pass in which a creation failed as well.
C21_Witness ==
    /\ stats # NoStats
    /\ stats.totalShortcuts >= 2
    /\ Cardinality(DOMAIN stats.shortcutsByTopic) = 2
    /\ \E i \in 1..Len(pass.attempts) : ~pass.attempts[i].ok

\* The records of the shortcuts Map that name index page p.
RecordsAt(map, p) ==
    {<<q, map[q[1]][q[2]]>> : q \in {r \in Places(map) :
                                        map[r[1]][r[2]].indexNodeToken = p}}

\* Whether a call on the agent reads or writes under index node p.
CallUnder(call, p) ==
    /\ call.op \in {"LIST_NODES", "CREATE_NODE"}
    /\ call.params.parent_node_token = p

\* C22: while updateAllIndexPages runs, no step issues a remote call, starts
\* or advances an update pass, adds a remote child or adds a record on
\* behalf of a registered index page whose autoUpdate is false; and whenever
\* the manager is idle, a direct updateIndexPage call on any registered page,
\* whatever its autoUpdate, goes on to list the page's children.
C22_BulkSkipsDisabledPages ==
    /\ [][bulk.active =>
            \A p \in Range(indexPages) :
                ~PageConfig(p).autoUpdate =>
                    /\ \A i \in 1..Len(calls') : ~CallUnder(calls'[i], p)
                    /\ pass' # pass => pass'.page # p
                    /\ remoteChildren'[p] = remoteChildren[p]
                    /\ RecordsAt(shortcuts', p) = RecordsAt(shortcuts, p)]_vars
    /\ [](\A p \in Range(indexPages) :
              DirectCall /\ runs < MaxRuns => ENABLED UpdateIndexPageListed(p))

\* A bulk run has passed both pages: it skipped P2 and has finished updating
\* P1, after a direct update of P2 had created shortcuts under P2.
C22_Witness ==
    /\ bulk.active
    /\ bulk.idx > Len(indexPages)
    /\ Range(indexPages) = {"P1", "P2"}
    /\ ~PageConfig("P2").autoUpdate
    /\ prev["P2"].done
    /\ RecordsAt(shortcuts, "P2") # {}
    /\ pass.page = "P1"
    /\ pass.pc = "done"

\* A searchWiki call of the pass settles in this step.
SearchStep ==
    /\ SearchEnabledHere
    /\ pass'.wikiIdx = pass.wikiIdx
    /\ pass'.kwIdx = pass.kwIdx + 1

\* searchWiki(c, k) has returned since the last clearCache.
SearchedBefore(c, k) == \E f \in searched : f.space_id = c /\ f.query = k

C24_AttachCallsEveryIndex ==
    [][\A target \in AttachTargets, indexNodeTokens \in AttachLists :
         \A results \in AttachResults(indexNodeTokens) :
            AddToMultipleIndexes(target, indexNodeTokens, results) =>
                calls' = [i \in 1..Len(indexNodeTokens) |->
                             CreateNodeCall(CreateShortcutParams(
                                 indexNodeTokens[i], target, AttachSpace))]]_vars

\* addToMultipleIndexes called for P2 and P1: the call for P2 failed, the
\* call for P1 was made all the same, and P1 had been linked to the target by
\* an earlier update.
C24_Witness ==
    /\ Len(calls) = 2
    /\ calls[1].op = "CREATE_NODE" /\ calls[1].params.parent_node_token = "P2"
    /\ calls[2].op = "CREATE_NODE" /\ calls[2].params.parent_node_token = "P1"
    /\ remoteChildren["P2"] = {}
    /\ RecordsAt(shortcuts, "P1") # {}
    /\ \E q \in RecordsAt(shortcuts, "P1") :
           q[2].targetNodeToken = calls[2].params.origin_node_token

\* C31: a search step of collectTopicPages for a pair (c, k) that is not in
\* the cache issues exactly one SEARCH_WIKI call, and the request the agent
\* sends for it is scoped to collection c and asks for k; a step that passes
\* over a collection registered with searchEnabled = false issues no call.
C31_SearchScopedToCollection ==
    [][/\ SearchStep
          /\ CacheKey(CurrentWiki.spaceId, CurrentKeyword) \notin DOMAIN searchCache
          => /\ Len(calls') = 1
             /\ calls'[1].op = "SEARCH_WIKI"
             /\ AgentSearchRequest(calls'[1].params) =
                    [space_id |-> CurrentWiki.spaceId, query |-> CurrentKeyword]
       /\ /\ pass.pc = "search"
          /\ pass.wikiIdx <= Len(wikis)
          /\ ~CurrentWiki.searchEnabled
          => calls' = <<>>]_vars

\* C32: the request the agent sends to the remote service for a creation
\* attempt of updateIndexPage names the index document as parent, is of
\* shortcut type, and carries the candidate's token and space as the target
\* of the link.
C32_CreateRequestNamesTarget ==
    [][pass.pc = "apply" /\ pass'.pageIdx = pass.pageIdx + 1 /\ calls' # <<>> =>
          LET request == AgentCreateNode(calls'[1].params) IN
          /\ calls'[1].op = "CREATE_NODE"
          /\ request.parent_node_token = pass.page
          /\ request.node_type = "shortcut"
          /\ "origin_node_token" \in DOMAIN request
          /\ request.origin_node_token = KeyOf(CurrentPage)
          /\ "origin_space_id" \in DOMAIN request
          /\ request.origin_space_id =
                 TargetSpaceOf(CurrentPage, PageConfig(pass.page))]_vars

\* C38: while updateAllIndexPages runs, its loop moves through indexPages
\* one entry at a time in registration order, calling updateIndexPage for
\* each entry with autoUpdate set; an updateIndexPage call that rejects
\* leaves the loop running, the next auto-update page can be updated after
\* it, and the loop ends only past the last entry, by resolving.
C38_BulkContinuesPastRejection ==
    /\ [][bulk.active =>
            /\ pass' # pass /\ pass'.pc = "rejected" => bulk'.active
            /\ ~bulk'.active => bulk.idx > Len(indexPages)
            /\ bulk'.active => bulk'.idx \in {bulk.idx, bulk.idx + 1}
            /\ bulk'.active /\ bulk'.idx = bulk.idx + 1
                   /\ ~Skipped(indexPages[bulk.idx]) =>
                   /\ pass'.page = indexPages[bulk.idx]
                   /\ calls' = <<ListNodesCall(indexPages[bulk.idx])>>]_vars
    /\ [](bulk.active /\ pass.pc = "rejected" /\ bulk.idx <= Len(indexPages) =>
              \/ ENABLED UpdateAllSkip
              \/ ENABLED UpdateIndexPageListed(indexPages[bulk.idx]))

\* A bulk run over <<P1, P3>>, both auto-update: updateIndexPage(P1)
\* rejected, and the run went on to update P3 to its end.
C38_Witness ==
    /\ bulk.active
    /\ indexPages = <<"P1", "P3">>
    /\ bulk.idx > Len(indexPages)
    /\ runs = 2
    /\ ~prev["P1"].done
    /\ pass.page = "P3"
    /\ pass.pc = "done"

\* C35: within one updateIndexPage or addToMultipleIndexes call, every
\* creation attempt that is followed by another creation attempt is followed
\* by a rate-limit delay first, whether the attempt succeeded or failed.
C35_DelayBetweenAttempts ==
    \A k \in 1..Len(delays) : k < Len(delays) => delays[k]

\* C40: two different (collection id, keyword) pairs never share an entry
\* of the search cache, whatever characters the ids and keywords contain.
C40_PairsNeverShareEntry ==
    \A f, g \in searched :
        CacheKey(f.space_id, f.query) = CacheKey(g.space_id, g.query)
            => f.space_id = g.space_id /\ f.query = g.query

\* Position of a SEARCH_WIKI call in the search plan of a topic.
PlanIndex(call, topic) ==
    CHOOSE k \in 1..Len(SearchPlan(topic)) :
        SearchPlan(topic)[k] = [spaceId |-> call.params.space_id,
                                keyword |-> call.params.query]

C37_OverlapCreatesNoLinkTwice ==
    (\A child \in remoteChildren[OverlapPage.nodeToken] :
         child.origin_node_token # NoToken)
    => \A t \in Tokens :
           \A i, j \in 1..Len(shortcuts[t]) :
               i # j => shortcuts[t][i].indexNodeToken
                            # shortcuts[t][j].indexNodeToken

\* ===================================================== correlator claims
\* The handler's state before a 'data' event.
HandlerEntry ==
    [pending |-> pendingRequests, outcome |-> outcome,
     settled |-> FALSE, discarded |-> {}, uncaught |-> uncaught]

\* Whether line i of chunk d is a well-formed response carrying id.
CarriesId(d, i, id) == d[i].kind # "garbage" /\ d[i].id = id

\* Index of the first line of d that carries id (0 when none does).
FirstLineFor(d, id) ==
    IF \E i \in 1..Len(d) : CarriesId(d, i, id)
    THEN CHOOSE i \in 1..Len(d) :
            /\ CarriesId(d, i, id)
            /\ \A j \in 1..(i - 1) : ~CarriesId(d, j, id)
    ELSE 0

\* What a response line settles a still-pending promise to.
ExpectedSettlement(line) ==
    IF line.kind = "error"
    THEN [st |-> "rejected", value |-> NoResult, message |-> line.message,
          code |-> Undefined]
    ELSE [st |-> "resolved", value |-> line.result, message |-> Undefined,
          code |-> Undefined]

\* C1: responses are correlated purely by id.  In every reachable state and
\* for every chunk the 'data' listener may be handed, a request in the pending
\* table is settled exactly when the chunk holds a response carrying its id,
\* and then by the first such response; every request for which the chunk
\* holds no response keeps its promise and its place in the table.
C1_CorrelationById ==
    listening => \A d \in DataEvents :
        LET h == HandleMCPResponse(d) IN
        \A id \in RequestIds :
            LET i == FirstLineFor(d, id) IN
            IF id \in pendingRequests /\ i # 0
            THEN /\ id \notin h.pending
                 /\ h.outcome[id] =
                        IF outcome[id].st = "pending"
                        THEN ExpectedSettlement(d[i])
                        ELSE outcome[id]
            ELSE /\ h.outcome[id] = outcome[id]
                 /\ (id \in h.pending) = (id \in pendingRequests)

\* C1 witness: request 2 has been resolved with its own result while request
\* 1, sent before it, is still outstanding.
C1_Witness ==
    /\ outcome[2].st = "resolved"
    /\ outcome[2].value = ResultFor(2)
    /\ outcome[1].st = "pending"
    /\ 1 \in pendingRequests

\* C2: when the transport terminates (close() kills the server, or the
\* process exits) every outstanding request is rejected in that step.
C2_RejectOnTermination ==
    [][(procRunning /\ ~procRunning') =>
          \A id \in RequestIds :
              outcome[id].st = "pending" => outcome'[id].st = "rejected"]_vars

\* C7: a request rejected because of a remote error envelope {code, message}
\* carries both the remote message and the remote code.
C7_RejectionCarriesCodeAndMessage ==
    \A id \in RequestIds :
        (outcome[id].st = "rejected" /\ outcome[id].message \in ErrorMessages)
            => outcome[id].code \in ErrorCodes

\* C8: a well-formed response whose id is not in the pending table when its
\* line is handled (never issued, or already answered, also by an earlier
\* line of the same chunk) is dropped: handling the line leaves the pending
\* table and every promise as they were and lets no exception escape.
C8_UnknownIdDropped ==
    listening => \A d \in DataEvents :
        \A i \in 1..Len(d) :
            LET before == HandleLines(HandlerEntry, SubSeq(d, 1, i - 1))
                after == HandleLines(HandlerEntry, SubSeq(d, 1, i))
            IN
            (d[i].kind # "garbage" /\ d[i].id \notin before.pending)
                => /\ after.pending = before.pending
                   /\ after.outcome = before.outcome
                   /\ after.uncaught = FALSE

\* C8 witness: the latest 'data' event dropped a response for an unknown id
\* and left requests outstanding.
C8_Witness ==
    /\ "unknownId" \in lastEvent.discarded
    /\ ~lastEvent.settled
    /\ \E id \in pendingRequests : outcome[id].st = "pending"
    /\ ~uncaught

\* C9: an unparsable line is discarded without aborting the stream.  For every
\* chunk holding an unparsable line, every pending request for which the
\* chunk holds a response, before or after that line, is settled, a chunk of
\* unparsable lines alone changes nothing, and no exception escapes the
\* listener, so later 'data' events are handled as well.
C9_GarbageDoesNotBreakCorrelation ==
    listening => \A d \in DataEvents :
        (\E g \in 1..Len(d) : d[g].kind = "garbage") =>
            LET h == HandleMCPResponse(d) IN
            /\ \A id \in pendingRequests :
                   IF FirstLineFor(d, id) # 0
                   THEN id \notin h.pending /\ h.outcome[id].st # "pending"
                   ELSE id \in h.pending /\ h.outcome[id] = outcome[id]
            /\ h.uncaught = uncaught
            /\ ~uncaught

\* C9 witness: the latest 'data' event discarded an unparsable line and
\* settled a request.
C9_Witness ==
    /\ "unparsable" \in lastEvent.discarded
    /\ lastEvent.settled
    /\ ~uncaught

\* C10: request ids are strictly increasing in allocation order, hence never
\* reused, also across close() and a new initialize().
C10_IdsStrictlyIncreasing ==
    \A i, j \in 1..Len(issued) : i < j => issued[i] < issued[j]

\* C10 witness: two initialize() calls have each sent their request, with a
\* close() between the two spawns.
C10_Witness ==
    /\ spawnedSinceClose = 1
    /\ Len(issued) >= 2
    /\ mcpProcess = TheProc
    /\ \E c1, c2 \in initCalls : c1.id < c2.id

\* C11: for every outbound request the continuation keyed by its id is in the
\* pending table at the moment the request is written to the transport, so
\* no response to a written, unsettled request finds its continuation missing.
C11_StoredBeforeWrite ==
    \A w \in written :
        /\ w.stored
        /\ outcome[w.id].st = "pending" => w.id \in pendingRequests

\* A request has been written and awaits its response.
C11_Witness ==
    \E w \in written :
        /\ w.stored
        /\ outcome[w.id].st = "pending"
        /\ w.id \in pendingRequests

\* C34: a pending-table entry exists exactly while its request is unsettled:
\* the id of a request whose promise has been resolved or rejected, also of
\* one rejected because no server process is attached, is not in the pending
\* table, and the id of a request still pending is in it.
C34_PendingExactlyWhileUnsettled ==
    \A id \in RequestIds :
        id \in pendingRequests <=> outcome[id].st = "pending"

\* C39: between two close() calls the agent starts at most one MCP server
\* process, also when initialize()/execute() calls overlap before the first
\* initialization has completed.
C39_OneServerBetweenCloses == spawnedSinceClose <= 1

\* C33: responses are framed by newline, not by 'data' event: once the whole
\* newline-terminated response line of a pending request has reached the
\* listener, in one event or cut across two, the request is settled.
C33_FramedByNewline ==
    \A id \in stdoutPipe.delivered : outcome[id].st # "pending"

\* ============================================== command dispatch claims
\* Dotted commands whose operation the safeguards do not restrict, with the
\* group and the operation they name.
DottedForms ==
    {[command |-> Cmd.C1Initialize, group |-> CommandType.C1_WIKI_SPACE,
      operation |-> Op.INITIALIZE],
     [command |-> Cmd.C2ListNodes, group |-> CommandType.C2_NODE_MANAGEMENT,
      operation |-> Op.LIST_NODES]}

\* C25: execute('Cn.OPERATION', params) invokes the handler of group n
\* exactly once, with operation OPERATION and the caller's params unchanged,
\* also when params is omitted, and invokes no other group.
C25_DottedDispatch ==
    \A f \in DottedForms :
        cmdCall.st # "idle" /\ cmdCall.command = f.command =>
            /\ Len(invoked) = 1
            /\ invoked[1].group = f.group
            /\ invoked[1].operation = f.operation
            /\ invoked[1].params = cmdCall.params

\* The group handler calls of a chain over the given groups: each is the
\* call of the group its step names, they are made in the order of the
\* steps, at most one per step, and one starts only after the ones before
\* it have settled; every step that has finished has called its group's
\* handler; and the call is not rejected before its first step.
RunsInOrder(groups) ==
    /\ \A i \in 1..Len(invoked) :
           /\ invoked[i].step \in 1..Len(groups)
           /\ invoked[i].group = groups[invoked[i].step]
           /\ \A j \in 1..Len(invoked) :
                  i < j => /\ invoked[i].step < invoked[j].step
                           /\ invoked[i].st # "running"
    /\ Len(cmdCall.results) <= Len(groups)
    /\ \A k \in 1..Len(cmdCall.results) :
           /\ cmdCall.results[k].command = groups[k]
           /\ \E i \in 1..Len(invoked) :
                  invoked[i].step = k /\ invoked[i].st # "running"
    /\ cmdCall.st = "rejected" => cmdCall.results # <<>>

\* Chain commands, with the groups they name in the order written.
ChainForms ==
    {[command |-> Cmd.RunC1C2C3,
      groups |-> <<CommandType.C1_WIKI_SPACE, CommandType.C2_NODE_MANAGEMENT,
                   CommandType.C3_PERMISSION>>],
     [command |-> Cmd.RunC2C1,
      groups |-> <<CommandType.C2_NODE_MANAGEMENT, CommandType.C1_WIKI_SPACE>>]}

\* C26: execute('Run Cx Cy ...') naming two or more groups runs exactly the
\* named groups in the order written, one at a time, each step starting only
\* after the previous step has finished.
C26_ChainRunsNamedGroupsInOrder ==
    \A f \in ChainForms :
        cmdCall.st # "idle" /\ cmdCall.command = f.command =>
            /\ RunsInOrder(f.groups)
            /\ cmdCall.st = "resolved" => Len(cmdCall.results) = Len(f.groups)

\* C27: execute('RUN ALL') runs the groups C1, C2, C3, C4, C5 in exactly that
\* order, each at most once, as one chain under the variant's chain-failure
\* policy: a failed step ends the chain of LarkWikiAgent and is only
\* recorded by LarkWikiMCPAgent.
C27_RunAllRunsEveryGroupInOrder ==
    cmdCall.st # "idle" /\ cmdCall.command = Cmd.RunAll =>
        /\ RunsInOrder(<<CommandType.C1_WIKI_SPACE,
                         CommandType.C2_NODE_MANAGEMENT,
                         CommandType.C3_PERMISSION, CommandType.C4_CONTENT,
                         CommandType.C5_AUTOMATION>>)
        /\ \A k \in 1..Len(cmdCall.results) :
               ~cmdCall.results[k].success =>
                   IF variant = "LarkWikiAgent"
                   THEN k = Len(cmdCall.results) /\ cmdCall.st = "rejected"
                   ELSE cmdCall.st # "rejected"
        /\ cmdCall.st = "resolved" => Len(cmdCall.results) = 5

\* C28: policy (a), LarkWikiAgent: when a chain step fails, no later step of
\* the chain is executed, rollback is invoked once with the results
\* collected so far, the failed step included, and the step's error
\* propagates to the caller of the chain.
C28_StandaloneAbortsAndRollsBack ==
    variant = "LarkWikiAgent" =>
        \A k \in 1..Len(cmdCall.results) :
            ~cmdCall.results[k].success =>
                /\ k = Len(cmdCall.results)
                /\ \A i \in 1..Len(invoked) : invoked[i].step <= k
                /\ rollbacks = <<cmdCall.results>>
                /\ cmdCall.st = "rejected"
                /\ cmdCall.results[k].error =
                       [text |-> cmdCall.error.text, args |-> cmdCall.error.args]

\* C28 witness: a chain of LarkWikiAgent was rejected at a failed step and
\* rolled back once.
C28_Witness ==
    /\ variant = "LarkWikiAgent"
    /\ cmdCall.st = "rejected"
    /\ cmdCall.commands # <<>>
    /\ cmdCall.results # <<>>
    /\ ~cmdCall.results[Len(cmdCall.results)].success
    /\ Len(cmdCall.results) < Len(cmdCall.commands)
    /\ rollbacks = <<cmdCall.results>>

\* Whether step k of the chain called a group handler that resolved.
StepSucceeded(k) ==
    \E i \in 1..Len(invoked) : invoked[i].step = k /\ invoked[i].st = "resolved"

\* C29: policy (b), LarkWikiMCPAgent: runChain executes every step whatever
\* the outcome of earlier steps, never rejects because a step failed, never
\* rolls back, and returns exactly one result entry per command, in chain
\* order, whose success flag tells whether that step succeeded.
C29_MCPRunsEveryStep ==
    variant = "LarkWikiMCPAgent" /\ cmdCall.commands # <<>> =>
        /\ cmdCall.st # "rejected"
        /\ rollbacks = <<>>
        /\ Len(cmdCall.results) <= Len(cmdCall.commands)
        /\ \A k \in 1..Len(cmdCall.results) :
               /\ cmdCall.results[k].command = cmdCall.commands[k]
               /\ cmdCall.results[k].success <=> StepSucceeded(k)
        /\ cmdCall.st = "resolved" =>
               Len(cmdCall.results) = Len(cmdCall.commands)

\* C29 witness: a chain of LarkWikiMCPAgent has returned with a step that
\* succeeded after a step that failed.
C29_Witness ==
    /\ variant = "LarkWikiMCPAgent"
    /\ cmdCall.st = "resolved"
    /\ cmdCall.commands # <<>>
    /\ \E k, m \in 1..Len(cmdCall.results) :
           /\ k < m
           /\ ~cmdCall.results[k].success
           /\ cmdCall.results[m].success

\* Command strings that are none of the recognized forms: not 'RUN ALL',
\* not a chain, not 'Cn.OPERATION', not a group name.
Unrecognized ==
    {Cmd.RUN_ALL, Cmd.RUN_CHAIN, Cmd.LowerRunAll, Cmd.Status}

\* C30: a command string that is none of the recognized forms, passed with
\* a params object, makes execute reject with an unknown-command error that
\* names the string verbatim, and no group operation is invoked.
C30_UnrecognizedRejected ==
    /\ cmdCall.st # "idle"
    /\ cmdCall.command \in Unrecognized
    /\ cmdCall.params.given
    => /\ cmdCall.st = "rejected"
       /\ cmdCall.error = UnknownCommandError(cmdCall.command)
       /\ invoked = <<>>

====
